---- MODULE Spec2Model ----
(***************************************************************************)
(* Kismet Sentinel dashboard: the alert / automation engine of             *)
(* src/kismet-sentinel-dashboard.py as a state machine.                    *)
(*                                                                         *)
(*   Spec       the alert store under concurrent callers: request threads  *)
(*              running push_alert and api_alerts_clear step by step       *)
(*              (ALERT_LOCK, insert, evict) beside an api_alerts reader    *)
(*              that takes no lock.                                        *)
(*   SpecQuery  the alert store's handlers called one after another:       *)
(*              push_alert, api_alerts_clear and api_alerts, each whole.   *)
(*   SpecDetect analyze_devices over a batch of device records, record by  *)
(*              record, pushing through push_alert.                        *)
(*   SpecPolicy the watchlist handlers called one after another:           *)
(*              _auto_watch_device, api_watchlist_add,                     *)
(*              api_watchlist_remove and the rules of api_automations.     *)
(*   SpecSave   the save automation, each handler whole: a batch through   *)
(*              analyze_devices and push_alert, the save threads it        *)
(*              starts, and the operator's changes of the save flags.      *)
(*   SpecWatchlist                                                         *)
(*              every handler that runs beside the watchlist, each whole.  *)
(*   SpecRace   push_alert, _auto_watch_device and _save_alert_device      *)
(*              step by step on concurrent threads.                        *)
(*   SpecPoll   poll_kismet_alerts and direct push_alert calls, each       *)
(*              whole.                                                     *)
(*   SpecBatch  do_save, whole, against a fetch and a filesystem that may  *)
(*              fail.                                                      *)
(*   SpecRaceWatch                                                         *)
(*              push_alert step by step beside the operator's watchlist    *)
(*              requests.                                                  *)
(*   SpecOrder  two concurrent analyze_devices calls, push by push.        *)
(*   SpecIds    the ids of the alert store, seeded and pushed.             *)
(*   SpecConfig api_automations, whole, beside push_alert calls.           *)
(*   SpecIngest analyze_devices on lists and on arguments of other kinds.  *)
(*   SpecSaveLog                                                           *)
(*              the save threads of concurrent push_alert calls, one step  *)
(*              per access to the alert save log.                          *)
(*   SpecGate   push_alert and its save threads step by step beside an     *)
(*              operator who switches save_watched_only and deletes a      *)
(*              watchlist entry.                                           *)
(*   SpecSanitize                                                          *)
(*              _sanitize_filename on one string after another.            *)
(***************************************************************************)
EXTENDS Integers, Sequences, FiniteSets, TLC

VARIABLES
    alerts,     \* state["alerts"]: the alert store, newest first
    lock,       \* ALERT_LOCK: the thread holding it, or Free
    hist,       \* history: every entry inserted since the last clear, newest first
    tpc,        \* request thread -> position in push_alert / api_alerts_clear
    tentry,     \* request thread -> the alert_entry its push_alert built
    qpc,        \* api_alerts reader: position
    qsev,       \* api_alerts: request.args.get("severity")
    qtype,      \* api_alerts: request.args.get("type")
    qlimit,     \* api_alerts: request.args.get("limit"), <<>> or <<n>>
    qi,         \* api_alerts: index of the running list comprehension
    qacc,       \* api_alerts: the list the running comprehension has built
    qres,       \* api_alerts: the "alerts" list of the response
    wiped,      \* history: events removed by the last clear, -1 after a push
    qwiped,     \* history: wiped as it was when the last query ran
    apc,        \* analyze_devices: position
    todo,       \* analyze_devices: number of records of the batch still to come
    dev,        \* analyze_devices: the record under evaluation
    emitted,    \* history: entries pushed for the record under evaluation
    failed,     \* history: a record of this batch raised inside the try body
    watched_devices, \* state["watched_devices"]: identifier -> watchlist entry
    automations,     \* state["automations"]
    alert_saves,     \* state["alert_saves"]: the save log, newest first
    files,           \* SAVE_DIR: file name -> "complete" or "partial"
    saveThreads,     \* the save threads push_alert started that have not ended
    clock,           \* datetime.now()
    resp,            \* the response of the last watchlist / automations request
    lastOp,          \* history: the last handler that ran, with its arguments
    prev,            \* history: watchlist, save log and files before lastOp
    wpc,             \* request thread -> position in push_alert past the lock
    wjob,            \* request thread -> the alert and device of its push_alert
    done,            \* history: request thread -> the stages its event has passed
    overwritten,     \* history: _auto_watch_device replaced an entry
    save_dir,        \* SAVE_DIR exists on disk
    save_log,        \* state["save_log"]: the batch save log, newest first
    last_save,       \* state["last_save"]: <<>> for None, or <<ts>>
    last_error,      \* state["last_error"]: "" for None, or the error text
    bidx,            \* request thread -> events of its batch pushed so far
    san_arg,         \* _sanitize_filename: the argument s of the last call
    san_ret          \* _sanitize_filename: what the last call returned

storeVars  == <<alerts, lock, hist>>
threadVars == <<tpc, tentry>>
readerVars == <<qpc, qsev, qtype, qlimit, qi, qacc, qres>>
seqVars    == <<wiped, qwiped>>
detectVars == <<apc, todo, dev, emitted, failed>>
diskVars   == <<save_dir, save_log, last_save, last_error>>
autoVars   == <<watched_devices, automations, alert_saves, files, saveThreads,
                clock, resp, lastOp, prev, diskVars>>
raceVars   == <<wpc, wjob, done, overwritten, bidx>>
sanVars    == <<san_arg, san_ret>>
vars == <<storeVars, threadVars, readerVars, seqVars, detectVars, autoVars, raceVars,
          sanVars>>

(***************************************************************************)
(* Bounds of the model.                                                    *)
(***************************************************************************)
\* Capacity of the alert store. The program sets MAX_ALERTS = 500 (line 58);
\* the model checks the same code at a small capacity.
MAX_ALERTS == 3
\* Longest batch handed to analyze_devices.
MaxBatch == 2
\* Entries inserted between two clears in Spec: enough to fill the store and
\* evict twice.
MaxHist == MAX_ALERTS + 2

\* Capacity of the batch save log. The program trims to 50 entries (line
\* 533); the model checks the same code at a small capacity.
MaxLog == 2
\* Events seeded at start-up. The program seeds 11 (lines 236-291); the model
\* seeds the newest ones.
MaxSeeds == 2

\* Upstream alerts mirrored per poll. The program takes the last 20 (line
\* 509); the model checks the same code with a short tail.
MirrorLast == 2

\* Capacity of the save log. The program trims to 100 entries (line 398);
\* the model checks the same code at a small capacity.
MaxSaves == 2
\* datetime.now() takes the values 0..MaxClock.
MaxClock == 1

(***************************************************************************)
(* Program constants.                                                      *)
(***************************************************************************)
INTERESTING_SIGNAL == -60
DEFAULT_SIGNAL == -100
DEFAULT_LIMIT == 100
SANITIZE_CAP == 80
DEFAULT_SEVERITY == 5
WARNING_BELOW == 10

\* Python values that are not the expected type.
None   == "None"      \* None / JSON null, also "argument not given"
Absent == "<absent>"  \* the key is missing from the dict
Free   == "<free>"    \* ALERT_LOCK is not held

Threads == {"t1", "t2"}

(***************************************************************************)
(* Sequence helpers.                                                       *)
(***************************************************************************)
Min(a, b) == IF a <= b THEN a ELSE b
Max(a, b) == IF a >= b THEN a ELSE b

\* The first n elements of s (all of s when it is shorter, none when n <= 0).
Take(s, n) == SubSeq(s, 1, Min(Max(n, 0), Len(s)))

\* Python's s[:n]: a negative n counts from the end.
PySliceTo(s, n) ==
    IF n >= 0 THEN SubSeq(s, 1, Min(n, Len(s)))
    ELSE SubSeq(s, 1, Max(Len(s) + n, 0))

Range(s) == {s[i] : i \in 1..Len(s)}

(***************************************************************************)
(* Alert entries.  push_alert builds {ts, type, severity, title, body,     *)
(* id}; the model keeps type and severity, the title as the rule that      *)
(* wrote it, and of the body the device identifier ("MAC: ...") and the    *)
(* matched keyword ("Keyword matched: '...'") it prints.  Device names and  *)
(* keywords are strings of characters (tuples of one-character strings);   *)
(* identifiers and tags are atoms.                                         *)
(***************************************************************************)
AlertEntry(atype, severity, title, mac, kw) ==
    [type |-> atype, severity |-> severity, title |-> title, mac |-> mac, kw |-> kw]

\* append() in place of insert(0, ...): the new entry goes to the tail.
Insert_atTail(store, e) == store \o <<e>>

(***************************************************************************)
(* push_alert, lines 438-450: the critical section.                        *)
(***************************************************************************)
\* state["alerts"].insert(0, alert_entry)
Insert(store, e) == <<e>> \o store

\* pop(0) in place of pop(): the newest entry is removed.
Evict_popHead(store) ==
    IF Len(store) > MAX_ALERTS THEN Tail(store) ELSE store

\* if len(state["alerts"]) > MAX_ALERTS: state["alerts"].pop()
Evict(store) ==
    IF Len(store) > MAX_ALERTS THEN SubSeq(store, 1, Len(store) - 1) ELSE store

\* The whole critical section, as a caller that holds the lock leaves the store.
PushStore(store, e) == Evict(Insert(store, e))

\* del state["alerts"][1:] in place of clear(): the newest entry survives.
Clear_keepsNewest(store) == Take(store, 1)

\* state["alerts"].clear()
Clear(store) == <<>>

(***************************************************************************)
(* api_alerts, lines 628-638.                                              *)
(***************************************************************************)
\* "if severity:" / "if atype:": None and the empty string give no filter.
Truthy(s) == s # None /\ s # ""

FilterSeverity(store, severity) ==
    IF Truthy(severity)
    THEN LET Keep(a) == a.severity = severity IN SelectSeq(store, Keep)
    ELSE store

FilterType(store, atype) ==
    IF Truthy(atype)
    THEN LET Keep(a) == a.type = atype IN SelectSeq(store, Keep)
    ELSE store

\* int(request.args.get("limit", 100)); the argument is <<>> when not given
\* and <<n>> when given as the integer n.
LimitArg(arg) == IF arg = <<>> THEN DEFAULT_LIMIT ELSE arg[1]

\* The response's "alerts" for a store no other thread touches meanwhile.
ApiAlerts(store, severity, atype, limit) ==
    PySliceTo(FilterType(FilterSeverity(store, severity), atype), LimitArg(limit))

(***************************************************************************)
(* Device records (the dicts of the upstream feed) and Python's reading of *)
(* them.  A field is [k, v]: k says what the JSON holds ("str", "int",     *)
(* "dict", "none" for null, "other" for another type, "absent" for a       *)
(* missing key) and v is the value when k names one.                       *)
(***************************************************************************)
Str(s) == [k |-> "str", v |-> s]
NullStr == [k |-> "none", v |-> <<>>]
AbsentStr == [k |-> "absent", v |-> <<>>]
Id(s) == [k |-> "str", v |-> s]
AbsentId == [k |-> "absent", v |-> ""]
\* A JSON array with elements as identifier: a list, truthy and unhashable;
\* s is the text str() prints for it.
ListId(s) == [k |-> "list", v |-> s]
Int_(n) == [k |-> "int", v |-> n]
NullInt == [k |-> "none", v |-> 0]
AbsentInt == [k |-> "absent", v |-> 0]
SignalDict(last) == [k |-> "dict", last |-> last]
SignalOther == [k |-> "other", last |-> AbsentInt]
AbsentSignal == [k |-> "absent", last |-> AbsentInt]

Device(name, manuf, mac, phy, signal) ==
    [shape |-> "dict", name |-> name, manuf |-> manuf, mac |-> mac,
     phy |-> phy, signal |-> signal]
\* A list element that is not a dict (a number, a string, null).
NotADict ==
    [shape |-> "other", name |-> AbsentStr, manuf |-> AbsentStr, mac |-> AbsentId,
     phy |-> AbsentId, signal |-> AbsentSignal]
NoRecord ==
    [shape |-> "none", name |-> AbsentStr, manuf |-> AbsentStr, mac |-> AbsentId,
     phy |-> AbsentId, signal |-> AbsentSignal]

\* d.get(key, default)
Get(field, default) == IF field.k = "absent" THEN default ELSE field

DRONE_KEYWORDS ==
    <<
       <<"d", "j", "i">>,
       <<"p", "a", "r", "r", "o", "t">>,
       <<"y", "u", "n", "e", "e", "c">>,
       <<"a", "u", "t", "e", "l">>,
       <<"s", "k", "y", "d", "i", "o">>,
       <<"b", "e", "b", "o", "p">>,
       <<"p", "h", "a", "n", "t", "o", "m">>,
       <<"m", "a", "v", "i", "c">>,
       <<"i", "n", "s", "p", "i", "r", "e">>,
       <<"m", "a", "t", "r", "i", "c", "e">>,
       <<"t", "e", "l", "l", "o">>,
       <<"f", "p", "v">>,
       <<"d", "r", "o", "n", "e">>,
       <<"u", "a", "v">>,
       <<"a", "r", "d", "u", "p", "i", "l", "o", "t">>,
       <<"p", "i", "x", "h", "a", "w", "k">>,
       <<"d", "r", "o", "n", "e", "i", "d">>
    >>

\* str.lower(), on the letters the device names of the model use
LowerChar(c) ==
    CASE c = "D" -> "d" [] c = "J" -> "j" [] c = "I" -> "i" [] c = "M" -> "m"
      [] c = "P" -> "p" [] c = "U" -> "u" [] c = "A" -> "a" [] c = "V" -> "v"
      [] OTHER -> c
Lower(s) == [i \in 1..Len(s) |-> LowerChar(s[i])]

\* kw in combined
Contains(kw, s) ==
    \E i \in 0..(Len(s) - Len(kw)) : SubSeq(s, i + 1, i + Len(kw)) = kw

(***************************************************************************)
(* analyze_devices, lines 459-502: the locals of one loop iteration.       *)
(***************************************************************************)
SsidOf(d)   == Get(d.name, Str(<<>>))                   \* line 464
MacOf(d)    == Get(d.mac, Id(""))                       \* line 465
PhyOf(d)    == Get(d.phy, Id(""))                       \* line 466
SignalOf(d) == Get(d.signal, SignalDict(AbsentInt))     \* line 467
LastSignalOf(d) == Get(SignalOf(d).last, Int_(DEFAULT_SIGNAL))   \* line 468
ManufOf(d)  == Get(d.manuf, Str(<<>>))                  \* line 469

\* Lines 464-472 raise: dev has no .get (AttributeError), signal has no .get
\* (AttributeError), or name / manuf is not a string (TypeError on "+").
ExtractRaises(d) ==
    \/ d.shape # "dict"
    \/ SignalOf(d).k # "dict"
    \/ SsidOf(d).k # "str"
    \/ ManufOf(d).k # "str"

\* combined = (ssid_map + " " + manuf).lower(), line 472
Combined(d) == Lower(SsidOf(d).v \o <<" ">> \o ManufOf(d).v)

\* f"MAC: {mac}": the identifier as the body prints it
MacText(d) == IF MacOf(d).k = "none" THEN "None" ELSE MacOf(d).v

\* No break after the first match: one alert per matching keyword.
KeywordAlerts_noBreak(d) ==
    LET hits == SelectSeq(DRONE_KEYWORDS, LAMBDA kw : Contains(kw, Combined(d)))
    IN  [i \in 1..Len(hits) |->
            AlertEntry("drone", "critical", "Drone detected", MacText(d), hits[i])]

\* Lines 473-481: the alerts the keyword rule pushes (the first keyword of
\* the list found in combined, then break).
KeywordAlerts(d) ==
    LET hits == {i \in 1..Len(DRONE_KEYWORDS) : Contains(DRONE_KEYWORDS[i], Combined(d))}
    IN  IF hits = {} THEN <<>>
        ELSE LET first == CHOOSE i \in hits : \A j \in hits : i <= j
             IN  <<AlertEntry("drone", "critical", "Drone detected", MacText(d),
                              DRONE_KEYWORDS[first])>>

\* "elif" in place of "if": the PHY rule is skipped after a keyword match.
PhyAlerts_elif(d) ==
    IF PhyOf(d).k = "str" /\ PhyOf(d).v = "UAV" /\ KeywordAlerts(d) = <<>>
    THEN <<AlertEntry("drone", "critical", "UAV PHY device", MacText(d), <<>>)>>
    ELSE <<>>

\* Lines 483-490: the alerts the PHY rule pushes.
PhyAlerts(d) ==
    IF PhyOf(d).k = "str" /\ PhyOf(d).v = "UAV"
    THEN <<AlertEntry("drone", "critical", "UAV PHY device", MacText(d), <<>>)>>
    ELSE <<>>

\* last_signal > INTERESTING_SIGNAL raises TypeError unless last_signal is a
\* number (line 493).
SignalRaises(d) == LastSignalOf(d).k # "int"

\* ">=" in place of ">".
SignalAlerts_orEqual(d) ==
    IF LastSignalOf(d).v >= INTERESTING_SIGNAL
    THEN <<AlertEntry("signal", "warning", "Strong signal", MacText(d), <<>>)>>
    ELSE <<>>

\* Lines 492-499: the alerts the signal rule pushes.
SignalAlerts(d) ==
    IF LastSignalOf(d).v > INTERESTING_SIGNAL
    THEN <<AlertEntry("signal", "warning", "Strong signal", MacText(d), <<>>)>>
    ELSE <<>>

\* The exception leaves analyze_devices (no try / except around the body).
OnRaise_propagates == "raised"

\* Lines 501-502, "except Exception: pass": the loop goes on to the next record.
OnRaise == "loop"

\* push_alert raises after its append: _auto_watch_device looks the
\* identifier up in the watchlist dict (line 414), a TypeError when it is a
\* list.
WatchRaises(d) == MacOf(d).k = "list"

\* The signal rule runs before the drone rules.
RecordAlerts_signalFirst(d) ==
    IF ExtractRaises(d) THEN <<>>
    ELSE (IF SignalRaises(d) THEN <<>> ELSE SignalAlerts(d))
         \o KeywordAlerts(d) \o PhyAlerts(d)

\* Lines 464-499: the alerts the rules of one record's try body push, in
\* order, up to the statement of the body that raises.
RuleAlerts(d) ==
    IF ExtractRaises(d) THEN <<>>
    ELSE KeywordAlerts(d) \o PhyAlerts(d)
         \o (IF SignalRaises(d) THEN <<>> ELSE SignalAlerts(d))

\* Lines 464-499 with the calls they make: the first push_alert whose watch
\* policy raises ends the try body, after its append.
RecordAlerts(d) ==
    IF WatchRaises(d) THEN Take(RuleAlerts(d), 1) ELSE RuleAlerts(d)

\* The try body raises somewhere.
RecordRaises(d) ==
    \/ ExtractRaises(d)
    \/ SignalRaises(d)
    \/ WatchRaises(d) /\ RuleAlerts(d) # <<>>

\* push_alert for each entry of es in turn (lines 438-450).
RECURSIVE PushEach(_, _)
PushEach(store, es) ==
    IF es = <<>> THEN store ELSE PushEach(PushStore(store, Head(es)), Tail(es))

(***************************************************************************)
(* Automation state (lines 42-54): state["automations"],                   *)
(* state["watched_devices"], state["alert_saves"].                         *)
(***************************************************************************)
\* state["automations"] as the module start leaves it (lines 42-52)
DefaultAutomations ==
    [alert_save_enabled |-> TRUE,
     save_device_details |-> TRUE,
     save_device_traffic |-> TRUE,
     save_watched_only |-> FALSE,
     auto_watch_rules |->
        [drone_alerts |-> TRUE, btle_alerts |-> TRUE, strong_signal |-> FALSE]]

NullId == [k |-> "none", v |-> ""]

\* push_alert(..., device=None)
NoDevice ==
    [shape |-> "None", name |-> AbsentStr, manuf |-> AbsentStr, mac |-> AbsentId,
     phy |-> AbsentId, signal |-> AbsentSignal]

\* bool(x) of a name or an identifier: a non-empty string
TruthyStr(f) == f.k = "str" /\ f.v # <<>>
TruthyId(f) == f.k = "str" /\ f.v # ""

\* str.upper(), on the device identifiers of the model
Upper(m) ==
    CASE m = "bb:02" -> "BB:02"
      [] m = "aa:01" -> "AA:01"
      [] OTHER -> m

\* dict with key m set to entry e: d[m] = e
DictSet(d, m, e) == [x \in DOMAIN d \cup {m} |-> IF x = m THEN e ELSE d[x]]
\* d.pop(m, None)
DictPop(d, m) == [x \in DOMAIN d \ {m} |-> d[x]]
EmptyDict == [x \in {} |-> x]

\* device.get("kismet_device_base_name", "") or mac (line 428); a watchlist
\* name is the display name (text) or, without one, the identifier (id).
WatchName(d) ==
    IF TruthyStr(Get(d.name, Str(<<>>)))
    THEN [text |-> d.name.v, id |-> ""]
    ELSE [text |-> <<>>, id |-> Get(d.mac, Id("")).v]

\* The entry is written without the fallback to the identifier and without
\* its origin.
AutoEntry_plain(d, now) ==
    [mac |-> Get(d.mac, Id("")).v,
     name |-> [text |-> Get(d.name, Str(<<>>)).v, id |-> ""],
     phyname |-> Get(d.phy, Id("")),
     added_at |-> now,
     auto |-> Absent]

\* Lines 429-435: the entry _auto_watch_device writes.
AutoEntry(d, now) ==
    [mac |-> Get(d.mac, Id("")).v,
     name |-> WatchName(d),
     phyname |-> Get(d.phy, Id("")),
     added_at |-> now,
     auto |-> "True"]

\* The strong_signal rule fires on every category.
ShouldWatch_signalAnyType(rules, atype, phy) ==
    \/ rules.drone_alerts /\ atype = "drone"
    \/ rules.btle_alerts /\ atype \in {"signal", "kismet"}
         /\ phy.k = "str" /\ phy.v \in {"BTLE", "Bluetooth"}
    \/ rules.strong_signal

\* Lines 418-425: should_watch.
ShouldWatch(rules, atype, phy) ==
    \/ rules.drone_alerts /\ atype = "drone"
    \/ rules.btle_alerts /\ atype \in {"signal", "kismet"}
         /\ phy.k = "str" /\ phy.v \in {"BTLE", "Bluetooth"}
    \/ rules.strong_signal /\ atype = "signal"

\* Lines 410-415: _auto_watch_device returns before it looks at the rules,
\* or line 414 raises (WatchRaises): the watchlist is left as it was.
WatchSkips(watched, d) ==
    \/ d = NoDevice
    \/ ~TruthyId(Get(d.mac, Id("")))
    \/ Get(d.mac, Id("")).v \in DOMAIN watched

\* state["watched_devices"] = {mac: {...}} in place of
\* state["watched_devices"][mac] = {...}: the other entries are dropped.
AutoWatch_resets(watched, rules, atype, d, now) ==
    IF WatchSkips(watched, d) THEN watched
    ELSE IF ShouldWatch(rules, atype, Get(d.phy, Id("")))
         THEN DictSet(EmptyDict, d.mac.v, AutoEntry(d, now))
         ELSE watched

\* _auto_watch_device(atype, device), lines 408-436: the watchlist it leaves.
AutoWatch(watched, rules, atype, d, now) ==
    IF WatchSkips(watched, d) THEN watched
    ELSE IF ShouldWatch(rules, atype, Get(d.phy, Id("")))
         THEN DictSet(watched, d.mac.v, AutoEntry(d, now))
         ELSE watched

\* POST /api/watchlist: the request body {mac, name, phyname}
AddBody(mac, name, phyname) == [mac |-> mac, name |-> name, phyname |-> phyname]

\* Lines 707-712: the entry api_watchlist_add writes (no "auto" key).
ManualEntry(body, now) ==
    [mac |-> Upper(body.mac.v),
     name |-> [text |-> Get(body.name, Str(<<>>)).v, id |-> ""],
     phyname |-> Get(body.phyname, Id("")),
     added_at |-> now,
     auto |-> Absent]

\* The guard "if not mac" is missing: an empty identifier is stored.
AddRejects_never(body) == FALSE

\* Lines 704-706: data.get("mac", "").upper() is empty.
AddRejects(body) == Get(body.mac, Id("")).v = ""

\* data.get("mac", "").upper() raises AttributeError: mac is null.
AddRaises(body) == body.mac.k = "none"

\* api_watchlist_add, lines 701-713: the watchlist it leaves.
WatchlistAdd(watched, body, now) ==
    IF AddRaises(body) \/ AddRejects(body) THEN watched
    ELSE DictSet(watched, Upper(body.mac.v), ManualEntry(body, now))

\* The responses of the watchlist handlers: status, ok, error, watched.
Response(status, ok, error, n) ==
    [status |-> status, ok |-> ok, error |-> error, watched |-> n]

\* api_watchlist_add, lines 703-713: the response.
AddResponse(watched, body, now) ==
    IF AddRaises(body) THEN Response(500, FALSE, "AttributeError", 0)
    ELSE IF AddRejects(body) THEN Response(400, FALSE, "MAC required", 0)
    ELSE Response(200, TRUE, "", Cardinality(DOMAIN WatchlistAdd(watched, body, now)))

\* api_watchlist_remove, lines 715-719: the watchlist it leaves.
WatchlistRemove(watched, mac) == DictPop(watched, Upper(mac))

\* bool(data["auto_watch_rules"].get(k)) for every rule in place of the test
\* "k in data": a rule the body does not name is switched off.
AutomationsPost_unnamedRulesOff(auto, body) ==
    [k \in DOMAIN auto |->
        IF k = "auto_watch_rules"
        THEN [r \in DOMAIN auto.auto_watch_rules |-> r \in DOMAIN body /\ body[r]]
        ELSE IF k \in DOMAIN body THEN body[k] ELSE auto[k]]

\* api_automations POST, lines 680-688: body is a dict that holds some of the
\* flat keys and some of the keys of auto_watch_rules; every value goes
\* through bool().
AutomationsPost(auto, body) ==
    [alert_save_enabled |->
        IF "alert_save_enabled" \in DOMAIN body THEN body.alert_save_enabled
        ELSE auto.alert_save_enabled,
     save_device_details |->
        IF "save_device_details" \in DOMAIN body THEN body.save_device_details
        ELSE auto.save_device_details,
     save_device_traffic |->
        IF "save_device_traffic" \in DOMAIN body THEN body.save_device_traffic
        ELSE auto.save_device_traffic,
     save_watched_only |->
        IF "save_watched_only" \in DOMAIN body THEN body.save_watched_only
        ELSE auto.save_watched_only,
     auto_watch_rules |->
        [drone_alerts |->
            IF "drone_alerts" \in DOMAIN body THEN body.drone_alerts
            ELSE auto.auto_watch_rules.drone_alerts,
         btle_alerts |->
            IF "btle_alerts" \in DOMAIN body THEN body.btle_alerts
            ELSE auto.auto_watch_rules.btle_alerts,
         strong_signal |->
            IF "strong_signal" \in DOMAIN body THEN body.strong_signal
            ELSE auto.auto_watch_rules.strong_signal]]

(***************************************************************************)
(* _save_alert_device, lines 337-406.                                      *)
(***************************************************************************)
\* A save thread push_alert started (line 457): its arguments.
SaveJob(e, d) ==
    [alert |-> e, device |-> d, pc |-> "start", enabled |-> FALSE, ts |-> 0,
     outcome |-> "", stale |-> FALSE, copy |-> <<>>]

\* Line 356: dev_name.  The display name, or the identifier as the record
\* holds it: "unknown" when the key is missing, None when it is null.
DevName(d) ==
    IF TruthyStr(Get(d.name, Str(<<>>)))
    THEN [k |-> "str", text |-> d.name.v, id |-> ""]
    ELSE IF d.mac.k = "absent" THEN [k |-> "str", text |-> <<>>, id |-> "unknown"]
    ELSE [k |-> d.mac.k, text |-> <<>>, id |-> d.mac.v]

\* Line 340: gate (a).
GateEnabled(auto) == auto.alert_save_enabled
\* Gate (b) is not there: a run with nothing to include goes on.
GateContent_skipped(auto) == TRUE

\* Line 342: gate (b).
GateContent(auto) == auto.save_device_details \/ auto.save_device_traffic
\* Lines 346-349: gate (c); a device record of a pushed alert is never an
\* empty dict.
GateWatched(auto, watched, d) ==
    auto.save_watched_only => Get(d.mac, Id("")).v \in DOMAIN watched

\* The master flag is not consulted.
GatesPass_ignoreEnabled(auto, watched, d) ==
    GateContent(auto) /\ GateWatched(auto, watched, d)

\* Lines 339-349: the run goes on to create the artifact.
GatesPass(auto, watched, d) ==
    GateEnabled(auto) /\ GateContent(auto) /\ GateWatched(auto, watched, d)

\* What the filesystem does to one save: the write succeeds, open raises
\* (line 392), json.dump raises (line 393), or SAVE_DIR.mkdir raises (line 351).
SaveOutcomes == {"ok", "open_fails", "dump_fails", "mkdir_fails"}

\* Lines 351-358 raise, outside the try block: mkdir fails, or dev_name is
\* None and _sanitize_filename iterates it (TypeError).
SaveRaises(d, outcome) == outcome = "mkdir_fails" \/ DevName(d).k = "none"

\* c.isalnum() or c in "-_", on the characters the names of the model use
SafeChar(c) ==
    c \in {"A", "B", "D", "I", "J", "M", "N", "U", "V", "a", "c", "d", "e", "i",
           "j", "k", "n", "o", "r", "t", "u", "v", "w", "0", "1", "2", "-", "_"}

\* The comprehension without the slice [:80].
Sanitize_uncapped(s) == [i \in 1..Len(s) |-> IF SafeChar(s[i]) THEN s[i] ELSE "_"]

\* _sanitize_filename(s), lines 333-335, on a string of characters
Sanitize(s) ==
    LET clean == [i \in 1..Len(s) |-> IF SafeChar(s[i]) THEN s[i] ELSE "_"]
    IN  SubSeq(clean, 1, Min(Len(clean), SANITIZE_CAP))

\* _sanitize_filename on the identifiers of the model: ":" becomes "_"
SanitizeId(m) ==
    CASE m = "AA:01" -> "AA_01"
      [] m = "aa:01" -> "aa_01"
      [] m = "BB:02" -> "BB_02"
      [] m = "bb:02" -> "bb_02"
      [] OTHER -> m

\* Line 358: filename, as its three parts (category, device label, second).
FileName(job, now) ==
    [alert_type |-> job.alert.type,
     device |-> [text |-> Sanitize(DevName(job.device).text),
                 id |-> SanitizeId(DevName(job.device).id)],
     ts |-> now]

\* Lines 391-393: the files of SAVE_DIR after the run.  open(out_file, "w")
\* creates or truncates the file; a failing json.dump leaves it partial.
WriteFile(fs, job, now, outcome) ==
    IF outcome = "ok" THEN DictSet(fs, FileName(job, now), "complete")
    ELSE IF outcome = "dump_fails" THEN DictSet(fs, FileName(job, now), "partial")
    ELSE fs

\* Lines 394-397 and 402-406: the SaveRecord.
SaveRecord(job, now, ok) ==
    [ts |-> now, file |-> FileName(job, now), alert_type |-> job.alert.type,
     device |-> DevName(job.device), ok |-> ok,
     error |-> IF ok THEN "" ELSE "OSError"]

\* Lines 391-406: the save log after the try block.  The except branch
\* inserts and does not trim.
SaveLog(saves, job, now, outcome) ==
    IF outcome = "ok"
    THEN Take(<<SaveRecord(job, now, TRUE)>> \o saves, MaxSaves)
    ELSE <<SaveRecord(job, now, FALSE)>> \o saves

\* _save_alert_device(alert_entry, device), lines 337-406: the save log it
\* leaves.
SaveAlertDevice(saves, auto, watched, job, now, outcome) ==
    IF ~GatesPass(auto, watched, job.device) THEN saves
    ELSE IF SaveRaises(job.device, outcome) THEN saves
    ELSE SaveLog(saves, job, now, outcome)

\* An exception leaves _save_alert_device and ends its thread: the gates are
\* passed and lines 351-358 raise.
SaveThreadRaises(auto, watched, d, outcome) ==
    GatesPass(auto, watched, d) /\ SaveRaises(d, outcome)

\* _save_alert_device, lines 337-406: the files of SAVE_DIR it leaves.
SaveFiles(fs, auto, watched, job, now, outcome) ==
    IF ~GatesPass(auto, watched, job.device) THEN fs
    ELSE IF SaveRaises(job.device, outcome) THEN fs
    ELSE WriteFile(fs, job, now, outcome)

\* _save_alert_device, line 351: SAVE_DIR exists after a run that passed the
\* gates, unless mkdir itself failed.
SaveDir(dir, auto, watched, job, outcome) ==
    IF GatesPass(auto, watched, job.device) /\ outcome # "mkdir_fails" THEN TRUE
    ELSE dir

\* push_alert(atype, ..., device=d) for each entry of es in turn, lines
\* 452-453: the watchlist after the calls of _auto_watch_device.
RECURSIVE WatchEach(_, _, _, _, _)
WatchEach(watched, rules, es, d, now) ==
    IF es = <<>> THEN watched
    ELSE WatchEach(AutoWatch(watched, rules, Head(es).type, d, now),
                   rules, Tail(es), d, now)

\* The test "device is not None" is missing: every push starts a thread.
Dispatch_always(es, d) == [i \in 1..Len(es) |-> SaveJob(es[i], d)]

\* Lines 456-457: the save threads the pushes of es start, one per push when
\* a device is attached and line 453 has not raised.
Dispatch(es, d) ==
    IF d = NoDevice \/ WatchRaises(d) THEN <<>>
    ELSE [i \in 1..Len(es) |-> SaveJob(es[i], d)]

(***************************************************************************)
(* poll_kismet_alerts, lines 504-517.  The answer of kismet_get is a feed: *)
(* the fetch raises, or returns a list of upstream alert records, or       *)
(* returns something that is not a list.                                   *)
(***************************************************************************)
\* An upstream alert record: its severity ordinal and its header.
UpstreamAlert(severity, header) ==
    [shape |-> "dict", severity |-> severity, header |-> header]
\* A list element that is not a dict.
NotAnAlert == [shape |-> "other", severity |-> AbsentInt, header |-> AbsentId]
Feed(k, items) == [k |-> k, items |-> items]

\* data[:20] in place of data[-20:]: the first MirrorLast records.
PollTail_first(items) == SubSeq(items, 1, Min(Len(items), MirrorLast))

\* data[-20:], line 509: the last MirrorLast records.
PollTail(items) ==
    SubSeq(items, Max(Len(items) - MirrorLast, 0) + 1, Len(items))

\* Lines 510-515 raise on record a: a has no .get, or its severity does not
\* compare with 10.
MirrorRaises(a) == a.shape # "dict" \/ Get(a.severity, Int_(DEFAULT_SEVERITY)).k # "int"

\* Lines 510-515: the event that mirrors record a.
Mirror(a) ==
    AlertEntry("kismet",
               IF Get(a.severity, Int_(DEFAULT_SEVERITY)).v < WARNING_BELOW
               THEN "warning" ELSE "info",
               IF a.header.k = "absent" THEN "Kismet Alert"
               ELSE IF a.header.k = "none" THEN None ELSE a.header.v,
               "", <<>>)

\* Line 517: the event the except clause pushes.
PollError == AlertEntry("error", "error", "Kismet alert poll failed", "", <<>>)

\* No try / except around the poll: the exception leaves the thread.
PollOnFailure_propagates == "raised"

\* Lines 516-517, "except Exception as e: push_alert(...)".
PollOnFailure == "alert"

\* The events the except clause pushes after a failure.
PollFailure == IF PollOnFailure = "alert" THEN <<PollError>> ELSE <<>>

\* Lines 509-517: the events pushed for the records of items, in order, up
\* to the record that raises.
RECURSIVE MirrorEach(_)
MirrorEach(items) ==
    IF items = <<>> THEN <<>>
    ELSE IF MirrorRaises(Head(items)) THEN PollFailure
    ELSE <<Mirror(Head(items))>> \o MirrorEach(Tail(items))

\* Lines 506-517: every event one poll pushes, in order.
PollAlerts(feed) ==
    IF feed.k = "raises" THEN PollFailure
    ELSE IF feed.k # "list" THEN <<>>
    ELSE MirrorEach(PollTail(feed.items))

\* An exception leaves poll_kismet_alerts.
PollRaises(feed) ==
    /\ PollOnFailure = "raised"
    /\ \/ feed.k = "raises"
       \/ feed.k = "list" /\ \E i \in 1..Len(PollTail(feed.items)) :
                                 MirrorRaises(PollTail(feed.items)[i])

(***************************************************************************)
(* do_save, lines 521-541.  kismet_get("/devices/all_devices.ekjson")      *)
(* raises or returns a list (line 313); the filesystem answers mkdir, open *)
(* and json.dump as for the alert saves.                                   *)
(***************************************************************************)
\* Line 524: out_file, kismet_<label>_<ts>.json, in the parts of a file name.
BatchFileName(label, now) ==
    [alert_type |-> "<batch>", device |-> [text |-> <<>>, id |-> label], ts |-> now]

\* Line 522 raises, outside the try block: SAVE_DIR.mkdir fails.
BatchRaises(outcome) == outcome = "mkdir_fails"

\* The try block of lines 525-535 raises: the fetch, open or json.dump.
BatchFails(feed, outcome) == feed.k = "raises" \/ outcome # "ok"

\* The records analyze_devices is called with (line 527).
BatchDevices(feed) == IF feed.k = "list" THEN feed.items ELSE <<>>

\* Line 527 on the alert store: analyze_devices over the records ds.
RECURSIVE IngestStore(_, _)
IngestStore(store, ds) ==
    IF ds = <<>> THEN store
    ELSE IngestStore(PushEach(store, RecordAlerts(Head(ds))), Tail(ds))

\* Line 527 on the watchlist.
RECURSIVE IngestWatch(_, _, _, _)
IngestWatch(watched, rules, ds, now) ==
    IF ds = <<>> THEN watched
    ELSE IngestWatch(WatchEach(watched, rules, RecordAlerts(Head(ds)), Head(ds), now),
                     rules, Tail(ds), now)

\* Line 527: the save threads the analysis starts.
RECURSIVE IngestThreads(_)
IngestThreads(ds) ==
    IF ds = <<>> THEN <<>>
    ELSE Dispatch(RecordAlerts(Head(ds)), Head(ds)) \o IngestThreads(Tail(ds))

\* Lines 535 and 540: the event do_save pushes at its end.
BatchAlert(ok) ==
    IF ok THEN AlertEntry("save", "info", "Batch save complete", "", <<>>)
    ELSE AlertEntry("error", "error", "Batch save failed", "", <<>>)

\* Lines 532 and 539: the entry of the batch save log.
BatchRecord(label, now, count, ok) ==
    [ts |-> now, file |-> BatchFileName(label, now), count |-> count, ok |-> ok,
     error |-> IF ok THEN "" ELSE "error"]

\* Lines 532-533 and 539: the batch save log after the try block.  The
\* except branch inserts and does not trim.
BatchLog(log, label, now, feed, outcome) ==
    IF BatchFails(feed, outcome)
    THEN <<BatchRecord(label, now, 0, FALSE)>> \o log
    ELSE Take(<<BatchRecord(label, now, Len(feed.items), TRUE)>> \o log, MaxLog)

\* Lines 529-530: the files of SAVE_DIR after the try block.
BatchFiles(fs, label, now, feed, outcome) ==
    IF feed.k = "raises" \/ outcome = "open_fails" THEN fs
    ELSE DictSet(fs, BatchFileName(label, now),
                 IF outcome = "ok" THEN "complete" ELSE "partial")

(***************************************************************************)
(* History of the whole-handler specifications: lastOp names the last call *)
(* and its arguments; prev holds the watchlist, the save log and the files *)
(* as they were before it.                                                 *)
(***************************************************************************)
NoBody == AddBody(AbsentId, AbsentStr, AbsentId)
Op(op, atype, device, body, mac, outcome) ==
    [op |-> op, atype |-> atype, device |-> device, body |-> body, mac |-> mac,
     outcome |-> outcome, raised |-> FALSE]
Before ==
    [watched |-> watched_devices, saves |-> alert_saves, files |-> files,
     alerts |-> alerts, threads |-> saveThreads, save_dir |-> save_dir,
     save_log |-> save_log]
\* prev after a call that no comparison is made for
NoPrev ==
    [watched |-> EmptyDict, saves |-> <<>>, files |-> EmptyDict, alerts |-> <<>>,
     threads |-> <<>>, save_dir |-> FALSE, save_log |-> <<>>]

(***************************************************************************)
(* Request threads of Spec: push_alert (lines 438-450) and                 *)
(* api_alerts_clear (lines 640-644), one step per statement that another   *)
(* thread can see.                                                         *)
(***************************************************************************)
NoEntry == AlertEntry("", "", "", "", <<>>)

\* with ALERT_LOCK: alert_entry = {...}
PushLock(t, e) ==
    /\ tpc[t] = "idle"
    /\ lock = Free
    /\ Len(hist) < MaxHist
    /\ lock' = t
    /\ tpc' = [tpc EXCEPT ![t] = "insert"]
    /\ tentry' = [tentry EXCEPT ![t] = e]
    /\ UNCHANGED <<alerts, hist, readerVars, seqVars, sanVars, detectVars, autoVars, raceVars>>

\* state["alerts"].insert(0, alert_entry)
PushInsert(t) ==
    /\ tpc[t] = "insert"
    /\ alerts' = Insert(alerts, tentry[t])
    /\ hist' = <<tentry[t]>> \o hist
    /\ tpc' = [tpc EXCEPT ![t] = "evict"]
    /\ UNCHANGED <<lock, tentry, readerVars, seqVars, sanVars, detectVars, autoVars, raceVars>>

\* if len(state["alerts"]) > MAX_ALERTS: state["alerts"].pop(); the with
\* block ends and releases ALERT_LOCK.
PushEvict(t) ==
    /\ tpc[t] = "evict"
    /\ alerts' = Evict(alerts)
    /\ lock' = Free
    /\ tpc' = [tpc EXCEPT ![t] = "idle"]
    /\ tentry' = [tentry EXCEPT ![t] = NoEntry]
    /\ UNCHANGED <<hist, readerVars, seqVars, sanVars, detectVars, autoVars, raceVars>>

\* api_alerts_clear: with ALERT_LOCK:
ClearLock(t) ==
    /\ tpc[t] = "idle"
    /\ lock = Free
    /\ lock' = t
    /\ tpc' = [tpc EXCEPT ![t] = "clear"]
    /\ UNCHANGED <<alerts, hist, tentry, readerVars, seqVars, sanVars, detectVars, autoVars, raceVars>>

\* state["alerts"].clear(); the with block ends and releases ALERT_LOCK.
ClearStore(t) ==
    /\ tpc[t] = "clear"
    /\ alerts' = Clear(alerts)
    /\ hist' = <<>>
    /\ lock' = Free
    /\ tpc' = [tpc EXCEPT ![t] = "idle"]
    /\ UNCHANGED <<tentry, readerVars, seqVars, sanVars, detectVars, autoVars, raceVars>>

(***************************************************************************)
(* The api_alerts reader of Spec (lines 628-638).  It takes no lock.       *)
(* "alerts = state["alerts"]" is a reference to the live list: the first   *)
(* comprehension that runs iterates the live list element by element, and  *)
(* with no filter the slice alerts[:limit] copies the live list in one     *)
(* step.  What follows the first comprehension works on a private list.    *)
(***************************************************************************)

QStart(severity, atype, limit) ==
    /\ qpc \in {"idle", "done"}
    /\ qsev' = severity
    /\ qtype' = atype
    /\ qlimit' = limit
    /\ qi' = 1
    /\ qacc' = <<>>
    /\ qres' = <<>>
    /\ qpc' = IF Truthy(severity) \/ Truthy(atype) THEN "iterate" ELSE "slice"
    /\ UNCHANGED <<storeVars, threadVars, seqVars, sanVars, detectVars, autoVars, raceVars>>

\* Whether the first comprehension (over the live list) keeps element a.
KeepsLive(a) ==
    IF Truthy(qsev) THEN a.severity = qsev ELSE a.type = qtype

\* One iteration of the comprehension over the live list.
QIterate ==
    /\ qpc = "iterate"
    /\ qi <= Len(alerts)
    /\ qacc' = IF KeepsLive(alerts[qi]) THEN Append(qacc, alerts[qi]) ELSE qacc
    /\ qi' = qi + 1
    /\ UNCHANGED <<storeVars, threadVars, qpc, qsev, qtype, qlimit, qres, seqVars, sanVars, detectVars, autoVars, raceVars>>

\* The live list is exhausted: the comprehension's list is private, and the
\* type filter (when the severity filter ran first) and the slice work on it.
QFinish ==
    /\ qpc = "iterate"
    /\ qi > Len(alerts)
    /\ qres' = PySliceTo(IF Truthy(qsev) THEN FilterType(qacc, qtype) ELSE qacc,
                         LimitArg(qlimit))
    /\ qpc' = "done"
    /\ UNCHANGED <<storeVars, threadVars, qsev, qtype, qlimit, qi, qacc, seqVars, sanVars, detectVars, autoVars, raceVars>>

\* No filter: alerts[:limit] slices the live list.
QSlice ==
    /\ qpc = "slice"
    /\ qres' = PySliceTo(alerts, LimitArg(qlimit))
    /\ qpc' = "done"
    /\ UNCHANGED <<storeVars, threadVars, qsev, qtype, qlimit, qi, qacc, seqVars, sanVars, detectVars, autoVars, raceVars>>

NoStages == [append |-> FALSE, watch |-> FALSE, save |-> FALSE]

\* The state after the module is loaded (lines 32-58): an empty store.
Init ==
    /\ alerts = <<>> /\ lock = Free /\ hist = <<>>
    /\ tpc = [t \in Threads |-> "idle"]
    /\ tentry = [t \in Threads |-> NoEntry]
    /\ qpc = "idle" /\ qsev = None /\ qtype = None /\ qlimit = <<>>
    /\ qi = 1 /\ qacc = <<>> /\ qres = <<>>
    /\ wiped = -1 /\ qwiped = -1
    /\ apc = "idle" /\ todo = 0 /\ dev = NoRecord /\ emitted = <<>>
    /\ failed = FALSE
    \* Lines 39-54: the default automations, nobody watched, nothing saved.  The
    \* module does not create SAVE_DIR when it is loaded (only the command-line
    \* entry point does, line 1740): the handlers create it on their first save.
    /\ watched_devices = EmptyDict
    /\ automations = DefaultAutomations
    /\ alert_saves = <<>>
    /\ files = EmptyDict
    /\ saveThreads = <<>>
    /\ clock = 0
    /\ resp = Response(0, FALSE, "", 0)
    /\ lastOp = Op("none", "", NoDevice, NoBody, "", "")
    /\ prev = NoPrev
    /\ save_dir = FALSE
    /\ save_log = <<>>
    /\ last_save = <<>>
    /\ last_error = ""
    /\ wpc = [t \in Threads |-> "idle"]
    /\ wjob = [t \in Threads |-> SaveJob(NoEntry, NoDevice)]
    /\ done = [t \in Threads |-> NoStages]
    /\ overwritten = FALSE
    /\ bidx = [t \in Threads |-> 0]
    /\ san_arg = <<>> /\ san_ret = <<>>

Next ==
    \/ LET \* Entries the request threads of Spec push.
           SpecInputs ==
               { AlertEntry("drone", "critical", "Drone detected", "AA:01", <<"d", "j", "i">>),
                 AlertEntry("kismet", "info", "Kismet Alert", "", <<>>) }
       IN  \E t \in Threads, e \in SpecInputs : PushLock(t, e)
    \/ \E t \in Threads : PushInsert(t)
    \/ \E t \in Threads : PushEvict(t)
    \/ \E t \in Threads : ClearLock(t)
    \/ \E t \in Threads : ClearStore(t)
    \/ LET \* Arguments the concurrent reader passes.
           SpecSeverities == {None, "critical"}
           SpecTypes == {None, "kismet"}
           SpecLimits == {<<>>, <<1>>}
       IN  \E s \in SpecSeverities, ty \in SpecTypes, l \in SpecLimits : QStart(s, ty, l)
    \/ QIterate
    \/ QFinish
    \/ QSlice

Spec == Init /\ [][Next]_vars

(***************************************************************************)
(* SpecQuery: the handlers of the alert store called one after another,    *)
(* each action one whole call.  The reader variables hold the response of  *)
(* the last call only.                                                     *)
(***************************************************************************)

\* push_alert(...) with no device attached, lines 438-450
PushCall(e) ==
    /\ alerts' = PushStore(alerts, e)
    /\ wiped' = -1
    /\ qpc' = "pushed"
    /\ qsev' = None /\ qtype' = None /\ qlimit' = <<>> /\ qres' = <<>>
    /\ UNCHANGED <<lock, hist, threadVars, qi, qacc, qwiped, sanVars, detectVars, autoVars, raceVars>>

\* POST /api/alerts/clear, lines 640-644
ClearCall ==
    /\ alerts' = Clear(alerts)
    /\ wiped' = Len(alerts)
    /\ qpc' = "cleared"
    /\ qsev' = None /\ qtype' = None /\ qlimit' = <<>> /\ qres' = <<>>
    /\ UNCHANGED <<lock, hist, threadVars, qi, qacc, qwiped, sanVars, detectVars, autoVars, raceVars>>

\* GET /api/alerts, lines 628-638
QueryCall(severity, atype, limit) ==
    /\ qres' = ApiAlerts(alerts, severity, atype, limit)
    /\ qsev' = severity /\ qtype' = atype /\ qlimit' = limit
    /\ qwiped' = wiped
    /\ qpc' = "done"
    /\ UNCHANGED <<storeVars, threadVars, qi, qacc, wiped, sanVars, detectVars, autoVars, raceVars>>

NextQuery ==
    \/ LET \* Entries push_alert is called with in SpecQuery: two drone sightings, a
           \* strong signal and a mirrored Kismet alert of the same severity.
           PushInputs ==
               { AlertEntry("drone", "critical", "Drone detected", "AA:01", <<"d", "j", "i">>),
                 AlertEntry("drone", "critical", "UAV PHY device", "bb:02", <<>>),
                 AlertEntry("signal", "warning", "Strong signal", "AA:01", <<>>),
                 AlertEntry("kismet", "warning", "Kismet Alert", "", <<>>) }
       IN  \E e \in PushInputs : PushCall(e)
    \/ ClearCall
    \/ LET QuerySeverities == {None, "", "critical", "warning"}
           QueryTypes == {None, "drone", "kismet"}
           \* limit not given, or an integer: negative, zero, one, the capacity, more
           QueryLimits == {<<>>} \cup {<<n>> : n \in {-1, 0, 1, MAX_ALERTS, MAX_ALERTS + 1}}
       IN  \E s \in QuerySeverities, ty \in QueryTypes, l \in QueryLimits : QueryCall(s, ty, l)

SpecQuery == Init /\ [][NextQuery]_vars

(***************************************************************************)
(* SpecDetect: analyze_devices on a batch, one step per record.  The batch *)
(* is a list of todo records; each is read when the loop reaches it.       *)
(***************************************************************************)
DjiMavic == Str(<<"D", "J", "I", " ", "M", "a", "v", "i", "c">>)
Dron     == Str(<<"D", "r", "o", "n">>)
Phys   == {Id("UAV"), Id("IEEE802.11")}
\* The records of a batch: every name and manufacturer with a strong and with
\* a missing signal under the first identifier, every signal with a name that
\* has a keyword and with one that has none under the second, each for both
\* PHYs; a strong signal whose identifier is a list, with and without a
\* keyword in the name, for both PHYs; and a non-dict.
Devices ==
    LET Names  == {AbsentStr, NullStr, DjiMavic, Dron}
        Manufs == {AbsentStr, Str(<<"e">>), Str(<<"P", "a", "r", "r", "o", "t">>)}
        Signals ==
            {AbsentSignal, SignalOther, SignalDict(AbsentInt), SignalDict(NullInt)}
            \cup {SignalDict(Int_(n)) : n \in {INTERESTING_SIGNAL - 1, INTERESTING_SIGNAL,
                                               INTERESTING_SIGNAL + 1}}
    IN  {NotADict}
        \cup {Device(n, AbsentStr, ListId("['AA:01']"), p, SignalDict(Int_(INTERESTING_SIGNAL + 1))) :
                 n \in {DjiMavic, Dron}, p \in Phys}
        \cup {Device(n, m, Id("AA:01"), p, s) : n \in Names, m \in Manufs, p \in Phys,
                 s \in {SignalDict(Int_(INTERESTING_SIGNAL + 1)), SignalDict(AbsentInt)}}
        \cup {Device(n, AbsentStr, Id("bb:02"), p, s) : n \in {DjiMavic, Dron}, p \in Phys,
                 s \in Signals}

\* The records of a batch of SpecSave: a named drone with a strong signal
\* (a drone and a signal alert; the drone rule watches it), a strong signal
\* without a keyword that reports its identifier in lower case (no rule
\* watches it), and an unnamed UAV whose identifier is null.
Strong == SignalDict(Int_(INTERESTING_SIGNAL + 1))
AutoDevices ==
    { Device(DjiMavic, AbsentStr, Id("AA:01"), Id("IEEE802.11"), Strong),
      Device(Dron, AbsentStr, Id("bb:02"), Id("IEEE802.11"), Strong),
      Device(Str(<<>>), AbsentStr, NullId, Id("UAV"), AbsentSignal) }

\* The records of the batch of SpecWatchlist: a named drone (one alert; the
\* drone rule watches it).
LifeDevices == {Device(DjiMavic, AbsentStr, Id("AA:01"), Id("IEEE802.11"), AbsentSignal)}

\* RecordAlerts and RecordRaises of every record of the model, computed once.
AlertsOf == [d \in Devices \cup AutoDevices \cup LifeDevices |-> RecordAlerts(d)]
RaisesOn == [d \in Devices \cup AutoDevices \cup LifeDevices |-> RecordRaises(d)]

\* The test of line 460 is missing: every argument reaches the loop.
NotAList_never(kind) == FALSE

\* Line 460: not isinstance(devices, list), on the kind of the argument
\* ("list", "None", "int", or "dict" for an empty dict).
NotAList(kind) == kind # "list"

\* Lines 460-462: where analyze_devices goes on its argument: it returns, it
\* enters the loop, or "for dev in devices" raises TypeError on an argument
\* that cannot be iterated.
AnalyzeEntry(kind) ==
    IF NotAList(kind) THEN "idle"
    ELSE IF kind \in {"None", "int"} THEN "raised"
    ELSE "loop"

\* analyze_devices(devices), lines 459-462, on any argument: a list of n
\* records, or a value of another kind.
AnalyzeInput(kind, n) ==
    /\ apc = "idle"
    /\ apc' = AnalyzeEntry(kind)
    /\ todo' = IF kind = "list" THEN n ELSE 0
    /\ dev' = NoRecord
    /\ emitted' = <<>>
    /\ failed' = FALSE
    /\ lastOp' = Op("analyze_input", "", NoDevice, NoBody, "", kind)
    /\ prev' = Before
    /\ UNCHANGED <<diskVars, watched_devices, automations, alert_saves, files,
                   saveThreads, clock, resp>>
    /\ UNCHANGED <<storeVars, threadVars, readerVars, seqVars, sanVars, raceVars>>

\* analyze_devices(devices) with a list of n records (lines 459-462), called
\* once on the store as the module start left it
AnalyzeCall(n) ==
    /\ apc = "idle"
    /\ dev = NoRecord
    /\ apc' = "loop"
    /\ todo' = n
    /\ UNCHANGED <<storeVars, threadVars, readerVars, seqVars, sanVars, dev, emitted, failed, autoVars, raceVars>>

\* One iteration of "for dev in devices" on record d: the try body (lines
\* 464-499) with every push_alert it makes (the store, the watch policy and
\* the save thread it starts, lines 438-457), and the except clause.
AnalyzeRecord(d) ==
    /\ apc = "loop"
    /\ todo > 0
    /\ todo' = todo - 1
    /\ dev' = d
    /\ alerts' = PushEach(alerts, AlertsOf[d])
    /\ watched_devices' = WatchEach(watched_devices, automations.auto_watch_rules,
                                    AlertsOf[d], d, clock)
    /\ saveThreads' = saveThreads \o Dispatch(AlertsOf[d], d)
    /\ emitted' = AlertsOf[d]
    /\ IF RaisesOn[d]
       THEN apc' = OnRaise /\ failed' = TRUE
       ELSE apc' = "loop" /\ failed' = failed
    /\ lastOp' = Op("analyze", "", d, NoBody, "", "")
    /\ prev' = NoPrev
    /\ UNCHANGED <<diskVars, automations, alert_saves, files, clock, resp>>
    /\ UNCHANGED <<lock, hist, threadVars, readerVars, seqVars, sanVars, raceVars>>

\* the list is exhausted: analyze_devices returns
AnalyzeReturn ==
    /\ apc = "loop"
    /\ todo = 0
    /\ apc' = "idle"
    /\ UNCHANGED <<storeVars, threadVars, readerVars, seqVars, sanVars, todo, dev, emitted, failed, autoVars, raceVars>>

NextDetect ==
    \/ \E n \in 0..MaxBatch : AnalyzeCall(n)
    \/ \E d \in Devices : AnalyzeRecord(d)
    \/ AnalyzeReturn

SpecDetect == Init /\ [][NextDetect]_vars

(***************************************************************************)
(* The automation handlers called one after another, each action one whole *)
(* call.                                                                   *)
(***************************************************************************)

\* _auto_watch_device(atype, d), lines 408-436
AutoWatchCall(atype, d) ==
    /\ watched_devices' =
          AutoWatch(watched_devices, automations.auto_watch_rules, atype, d, clock)
    /\ lastOp' = Op("auto_watch", atype, d, NoBody, "", "")
    /\ prev' = Before
    /\ UNCHANGED <<diskVars, automations, alert_saves, files, saveThreads, clock, resp>>
    /\ UNCHANGED <<storeVars, threadVars, readerVars, seqVars, sanVars, detectVars, raceVars>>

\* POST /api/watchlist, lines 701-713
WatchlistAddCall(body) ==
    /\ watched_devices' = WatchlistAdd(watched_devices, body, clock)
    /\ resp' = AddResponse(watched_devices, body, clock)
    /\ lastOp' = Op("watchlist_add", "", NoDevice, body, "", "")
    /\ prev' = Before
    /\ UNCHANGED <<diskVars, automations, alert_saves, files, saveThreads, clock>>
    /\ UNCHANGED <<storeVars, threadVars, readerVars, seqVars, sanVars, detectVars, raceVars>>

\* DELETE /api/watchlist/<mac>, lines 715-719
WatchlistRemoveCall(mac) ==
    /\ watched_devices' = WatchlistRemove(watched_devices, mac)
    /\ resp' = Response(200, TRUE, "",
                        Cardinality(DOMAIN WatchlistRemove(watched_devices, mac)))
    /\ lastOp' = Op("watchlist_remove", "", NoDevice, NoBody, mac, "")
    /\ prev' = Before
    /\ UNCHANGED <<diskVars, automations, alert_saves, files, saveThreads, clock>>
    /\ UNCHANGED <<storeVars, threadVars, readerVars, seqVars, sanVars, detectVars, raceVars>>

\* POST /api/automations, lines 678-689
AutomationsPostCall(body) ==
    /\ automations' = AutomationsPost(automations, body)
    /\ resp' = Response(200, TRUE, "", 0)
    /\ lastOp' = Op("automations", "", NoDevice, NoBody, "", "")
    /\ prev' = NoPrev
    /\ UNCHANGED <<diskVars, watched_devices, alert_saves, files, saveThreads, clock>>
    /\ UNCHANGED <<storeVars, threadVars, readerVars, seqVars, sanVars, detectVars, raceVars>>

\* s without its i-th element
Without(s, i) == SubSeq(s, 1, i - 1) \o SubSeq(s, i + 1, Len(s))

\* The save thread saveThreads[i] runs _save_alert_device from its first
\* line to its last (lines 337-406), the filesystem answering with outcome.
SaveRun(i, outcome) ==
    /\ i \in 1..Len(saveThreads)
    /\ saveThreads[i].pc = "start"
    /\ alert_saves' = SaveAlertDevice(alert_saves, automations, watched_devices,
                                      saveThreads[i], clock, outcome)
    /\ files' = SaveFiles(files, automations, watched_devices, saveThreads[i],
                          clock, outcome)
    /\ save_dir' = SaveDir(save_dir, automations, watched_devices, saveThreads[i],
                           outcome)
    /\ saveThreads' = Without(saveThreads, i)
    /\ lastOp' = [Op("save", saveThreads[i].alert.type, saveThreads[i].device,
                      NoBody, "", outcome)
                   EXCEPT !.raised = SaveThreadRaises(automations, watched_devices,
                                                      saveThreads[i].device, outcome)]
    /\ prev' = Before
    /\ UNCHANGED <<save_log, last_save, last_error, watched_devices, automations, clock, resp>>
    /\ UNCHANGED <<storeVars, threadVars, readerVars, seqVars, sanVars, detectVars, raceVars>>

\* poll_kismet_alerts with the feed kismet_get answers (lines 504-517): every
\* push_alert it makes, whole (the store, the watch policy, the save thread).
PollKismetAlerts(feed) ==
    /\ alerts' = PushEach(alerts, PollAlerts(feed))
    /\ watched_devices' = WatchEach(watched_devices, automations.auto_watch_rules,
                                    PollAlerts(feed), NoDevice, clock)
    /\ saveThreads' = saveThreads \o Dispatch(PollAlerts(feed), NoDevice)
    /\ lastOp' = [Op("poll", "", NoDevice, NoBody, "", feed.k)
                   EXCEPT !.raised = PollRaises(feed)]
    /\ prev' = Before
    /\ UNCHANGED <<diskVars, automations, alert_saves, files, clock, resp>>
    /\ UNCHANGED <<lock, hist, threadVars, readerVars, seqVars, sanVars, detectVars, raceVars>>

\* push_alert(e.type, ..., device=d), lines 438-457, whole.
PushAlertCall(e, d) ==
    /\ alerts' = PushStore(alerts, e)
    /\ watched_devices' = AutoWatch(watched_devices, automations.auto_watch_rules,
                                    e.type, d, clock)
    /\ saveThreads' = saveThreads \o Dispatch(<<e>>, d)
    /\ lastOp' = Op("push", e.type, d, NoBody, "", "")
    /\ prev' = Before
    /\ UNCHANGED <<diskVars, automations, alert_saves, files, clock, resp>>
    /\ UNCHANGED <<lock, hist, threadVars, readerVars, seqVars, sanVars, detectVars, raceVars>>

\* do_save(label), lines 521-541, whole: the fetch answers feed and the
\* filesystem answers outcome.
DoSave(label, feed, outcome) ==
    /\ IF BatchRaises(outcome)
       THEN UNCHANGED <<alerts, watched_devices, saveThreads, files, diskVars>>
       ELSE /\ alerts' = PushStore(IngestStore(alerts, BatchDevices(feed)),
                                   BatchAlert(~BatchFails(feed, outcome)))
            /\ watched_devices' =
                  IngestWatch(watched_devices, automations.auto_watch_rules,
                              BatchDevices(feed), clock)
            /\ saveThreads' = saveThreads \o IngestThreads(BatchDevices(feed))
            /\ save_dir' = TRUE
            /\ files' = BatchFiles(files, label, clock, feed, outcome)
            /\ save_log' = BatchLog(save_log, label, clock, feed, outcome)
            /\ last_save' = IF BatchFails(feed, outcome) THEN last_save ELSE <<clock>>
            /\ last_error' = IF BatchFails(feed, outcome) THEN "error" ELSE last_error
    /\ lastOp' = [Op("do_save", "", NoDevice, NoBody, feed.k, outcome)
                   EXCEPT !.raised = BatchRaises(outcome)]
    /\ prev' = Before
    /\ UNCHANGED <<automations, alert_saves, clock, resp>>
    /\ UNCHANGED <<lock, hist, threadVars, readerVars, seqVars, sanVars, detectVars, raceVars>>

\* datetime.now() moves on.
Tick ==
    /\ clock < MaxClock
    /\ clock' = clock + 1
    /\ UNCHANGED <<diskVars, watched_devices, automations, alert_saves, files, saveThreads,
                   resp, lastOp, prev>>
    /\ UNCHANGED <<storeVars, threadVars, readerVars, seqVars, sanVars, detectVars, raceVars>>

(***************************************************************************)
(* SpecPolicy: the watchlist and its handlers.                             *)
(***************************************************************************)
\* POST /api/watchlist bodies: mac missing, empty, null, lower and upper case.
AddBodies ==
    {AddBody(m, n, AbsentId) :
        m \in {AbsentId, Id(""), NullId, Id("bb:02"), Id("AA:01")},
        n \in {AbsentStr, Dron}}
\* DELETE /api/watchlist/<mac>
RemoveArgs == {"bb:02", "BB:02", "AA:01"}

NextPolicy ==
    \/ LET \* The categories push_alert is called with.
           PolicyTypes == {"drone", "signal", "kismet", "error"}
           \* The devices _auto_watch_device is called with: a named Wi-Fi device, two
           \* Bluetooth records of one identifier (unnamed BTLE, named Bluetooth), a
           \* record with an empty, a null and a missing identifier, and no device.
           PolicyDevices ==
               { Device(DjiMavic, AbsentStr, Id("AA:01"), Id("IEEE802.11"), AbsentSignal),
                 Device(AbsentStr, AbsentStr, Id("bb:02"), Id("BTLE"), AbsentSignal),
                 Device(Dron, AbsentStr, Id("bb:02"), Id("Bluetooth"), AbsentSignal),
                 Device(DjiMavic, AbsentStr, Id(""), Id("BTLE"), AbsentSignal),
                 Device(DjiMavic, AbsentStr, NullId, Id("UAV"), AbsentSignal),
                 Device(DjiMavic, AbsentStr, AbsentId, Id("UAV"), AbsentSignal),
                 NoDevice }
       IN  \E a \in PolicyTypes, d \in PolicyDevices : AutoWatchCall(a, d)
    \/ \E b \in AddBodies : WatchlistAddCall(b)
    \/ \E m \in RemoveArgs : WatchlistRemoveCall(m)
    \/ LET \* POST /api/automations bodies that set one rule of auto_watch_rules.
           RuleBodies ==
               {[drone_alerts |-> b] : b \in BOOLEAN}
               \cup {[btle_alerts |-> b] : b \in BOOLEAN}
               \cup {[strong_signal |-> b] : b \in BOOLEAN}
       IN  \E b \in RuleBodies : AutomationsPostCall(b)

SpecPolicy == Init /\ [][NextPolicy]_vars

(***************************************************************************)
(* SpecSave: the save automation, each handler whole.  One batch goes      *)
(* through analyze_devices; the save threads it starts run in any order,   *)
(* between the operator's changes of the save flags.                       *)
(***************************************************************************)

NextSave ==
    \/ \E n \in 0..MaxBatch : AnalyzeCall(n)
    \/ \E d \in AutoDevices : AnalyzeRecord(d)
    \/ AnalyzeReturn
    \/ \E i \in 1..(3 * MaxBatch), o \in SaveOutcomes : SaveRun(i, o)
    \/ LET \* POST /api/automations bodies that set the save flags.
           SaveBodies ==
               {[alert_save_enabled |-> b] : b \in BOOLEAN}
               \cup {[save_watched_only |-> b] : b \in BOOLEAN}
               \cup {[save_device_details |-> b, save_device_traffic |-> b] : b \in BOOLEAN}
       IN  \E b \in SaveBodies : AutomationsPostCall(b)

SpecSave == Init /\ [][NextSave]_vars

(***************************************************************************)
(* SpecWatchlist: every handler that runs while the watchlist exists, each *)
(* whole: ingestion, the save threads, the poll, the clear, changes of the *)
(* automations, and the operator's add and delete requests.                *)
(***************************************************************************)
LifeRemoveArgs == {"aa:01", "bb:02"}

NextWatchlist ==
    \/ \E n \in 0..MaxBatch : AnalyzeCall(n)
    \/ \E d \in LifeDevices : AnalyzeRecord(d)
    \/ AnalyzeReturn
    \/ LET \* What the filesystem does to the saves of SpecWatchlist.
           LifeOutcomes == {"ok"}
       IN  \E i \in 1..(3 * MaxBatch), o \in LifeOutcomes : SaveRun(i, o)
    \/ LET \* The feed of the polls of SpecWatchlist: one upstream alert.
           LifeFeeds == {Feed("list", <<UpstreamAlert(AbsentInt, AbsentId)>>)}
       IN  \E f \in LifeFeeds : PollKismetAlerts(f)
    \/ ClearCall
    \/ LET \* POST /api/automations bodies of SpecWatchlist.
           LifeBodies == {[save_watched_only |-> TRUE]}
       IN  \E b \in LifeBodies : AutomationsPostCall(b)
    \/ LET \* POST /api/watchlist and DELETE /api/watchlist/<mac> of SpecWatchlist.
           LifeAddBodies == {AddBody(Id("bb:02"), AbsentStr, AbsentId)}
       IN  \E b \in LifeAddBodies : WatchlistAddCall(b)
    \/ \E m \in LifeRemoveArgs : WatchlistRemoveCall(m)

SpecWatchlist == Init /\ [][NextWatchlist]_vars

(***************************************************************************)
(* SpecPoll: poll_kismet_alerts and push_alert, each call whole, on a      *)
(* store that ingestion has filled and beside a watchlist that is not      *)
(* empty.                                                                  *)
(***************************************************************************)

\* What kismet_get answers: it raises; a dict; an empty list; a list of one
\* alert; a list whose second record is not a dict; a list, longer than the
\* tail that is mirrored, with a severe alert and one whose severity is null;
\* a list, longer than the tail, of a severe alert, a mild one and one
\* without a severity.
PollFeeds ==
    { Feed("raises", <<>>),
      Feed("other", <<>>),
      Feed("list", <<>>),
      Feed("list", <<UpstreamAlert(Int_(WARNING_BELOW), Id("SSID"))>>),
      Feed("list", <<UpstreamAlert(AbsentInt, AbsentId), NotAnAlert>>),
      Feed("list", <<NotAnAlert, UpstreamAlert(Int_(WARNING_BELOW - 1), Id("SSID")),
                     UpstreamAlert(NullInt, AbsentId)>>),
      Feed("list", <<UpstreamAlert(Int_(WARNING_BELOW - 1), Id("DEAUTHFLOOD")),
                     UpstreamAlert(Int_(WARNING_BELOW), Id("APSPOOF")),
                     UpstreamAlert(AbsentInt, Id("PROBECHAN"))>>) }

NextPoll ==
    \/ \E f \in PollFeeds : PollKismetAlerts(f)
    \/ LET \* The direct calls of push_alert: the events do_save pushes without a
           \* device, and a drone sighting with its device.
           PollPushes ==
               { <<AlertEntry("save", "info", "Batch save complete", "", <<>>), NoDevice>>,
                 <<AlertEntry("error", "error", "Batch save failed", "", <<>>), NoDevice>>,
                 <<AlertEntry("drone", "critical", "Drone detected", "AA:01", <<"d", "j", "i">>),
                   Device(DjiMavic, AbsentStr, Id("AA:01"), Id("IEEE802.11"), AbsentSignal)>> }
       IN  \E p \in PollPushes :
              Len(saveThreads) < MaxBatch /\ PushAlertCall(p[1], p[2])

SpecPoll == Init /\ [][NextPoll]_vars

(***************************************************************************)
(* SpecBatch: do_save called again and again, each call whole, while the   *)
(* clock moves on.                                                         *)
(***************************************************************************)

NextBatch ==
    \/ LET BatchLabels == {"manual"}
           \* What the fetch of do_save answers: it raises, no device, one drone.
           BatchFeeds ==
               { Feed("raises", <<>>), Feed("list", <<>>),
                 Feed("list", <<Device(DjiMavic, AbsentStr, Id("AA:01"), Id("IEEE802.11"),
                                       AbsentSignal)>>) }
       IN  \E l \in BatchLabels, f \in BatchFeeds, o \in SaveOutcomes :
              /\ Len(save_log) <= MaxLog
              /\ Len(saveThreads) < MaxBatch
              /\ DoSave(l, f, o)
    \/ Tick

SpecBatch == Init /\ [][NextBatch]_vars

(***************************************************************************)
(* SpecRace: push_alert with a device on concurrent request threads, one   *)
(* step per stage another thread can see, and the save threads it starts,  *)
(* beside an operator who switches alert_save_enabled.                     *)
(***************************************************************************)
\* Save thread first, watch policy second.
PushAlertOrder_saveFirst == <<"append", "save", "watch">>

\* push_alert, lines 438-457: the stages of one event in program order: the
\* critical section, _auto_watch_device, the start of the save thread.
PushAlertOrder == <<"append", "watch", "save">>

\* The stage that follows st in push_alert; "idle" after the last.
StageAfter(st) ==
    LET k == CHOOSE i \in 1..Len(PushAlertOrder) : PushAlertOrder[i] = st
    IN  IF k = Len(PushAlertOrder) THEN "idle" ELSE PushAlertOrder[k + 1]

\* The calls of push_alert in SpecRace: a sighting of a drone, and a mirrored
\* alert without a device.
RaceInputs ==
    { SaveJob(AlertEntry("drone", "critical", "Drone detected", "AA:01", <<"d", "j", "i">>),
              Device(DjiMavic, AbsentStr, Id("AA:01"), Id("IEEE802.11"), AbsentSignal)),
      SaveJob(AlertEntry("kismet", "warning", "Kismet Alert", "", <<>>), NoDevice) }

\* Lines 439-450: thread t builds the entry and appends it under ALERT_LOCK.
RaceAppend(t, j) ==
    /\ wpc[t] = "idle"
    /\ Len(hist) < MaxBatch
    /\ alerts' = PushStore(alerts, j.alert)
    /\ hist' = <<j.alert>> \o hist
    /\ wjob' = [wjob EXCEPT ![t] = j]
    /\ done' = [done EXCEPT ![t] = [NoStages EXCEPT !.append = TRUE]]
    /\ wpc' = [wpc EXCEPT ![t] = StageAfter("append")]
    /\ UNCHANGED <<lock, threadVars, readerVars, seqVars, sanVars, detectVars, autoVars, overwritten, bidx>>

\* Lines 410-415: _auto_watch_device looks the identifier up.
WatchCheck(t) ==
    /\ wpc[t] = "watch"
    /\ IF WatchSkips(watched_devices, wjob[t].device)
       THEN /\ wpc' = [wpc EXCEPT ![t] = StageAfter("watch")]
            /\ done' = [done EXCEPT ![t].watch = TRUE]
       ELSE /\ wpc' = [wpc EXCEPT ![t] = "insert"]
            /\ done' = done
    /\ UNCHANGED <<storeVars, threadVars, readerVars, seqVars, sanVars, detectVars, autoVars,
                   wjob, overwritten, bidx>>

\* Lines 417-436: the rules, and the write of the entry.
WatchInsert(t) ==
    LET d == wjob[t].device
        fires == ShouldWatch(automations.auto_watch_rules, wjob[t].alert.type,
                             Get(d.phy, Id("")))
    IN  /\ wpc[t] = "insert"
        /\ watched_devices' =
              IF fires THEN DictSet(watched_devices, d.mac.v, AutoEntry(d, clock))
              ELSE watched_devices
        /\ overwritten' =
              (\/ overwritten
               \/ /\ fires
                  /\ d.mac.v \in DOMAIN watched_devices
                  /\ watched_devices[d.mac.v] # AutoEntry(d, clock))
        /\ wpc' = [wpc EXCEPT ![t] = StageAfter("watch")]
        /\ done' = [done EXCEPT ![t].watch = TRUE]
        /\ UNCHANGED <<storeVars, threadVars, readerVars, seqVars, sanVars, detectVars, wjob, bidx>>
        /\ UNCHANGED <<diskVars, automations, alert_saves, files, saveThreads, clock, resp,
                       lastOp, prev>>

\* Lines 456-457: the save thread is started when a device is attached.
StartSave(t) ==
    /\ wpc[t] = "save"
    /\ IF wjob[t].device # NoDevice
       THEN /\ saveThreads' = Append(saveThreads, wjob[t])
            /\ done' = [done EXCEPT ![t].save = TRUE]
       ELSE /\ saveThreads' = saveThreads
            /\ done' = done
    /\ wpc' = [wpc EXCEPT ![t] = StageAfter("save")]
    /\ UNCHANGED <<storeVars, threadVars, readerVars, seqVars, sanVars, detectVars, wjob,
                   overwritten, bidx>>
    /\ UNCHANGED <<diskVars, watched_devices, automations, alert_saves, files, clock, resp,
                   lastOp, prev>>

\* Lines 339-349: save thread i reads the flags and the watchlist.
SaveGate(i) ==
    /\ i \in 1..Len(saveThreads)
    /\ saveThreads[i].pc = "start"
    /\ IF GatesPass(automations, watched_devices, saveThreads[i].device)
       THEN /\ saveThreads' =
                 [saveThreads EXCEPT ![i].pc = "create",
                                     ![i].enabled = automations.alert_save_enabled]
            /\ lastOp' = Op("save_gate", saveThreads[i].alert.type,
                            saveThreads[i].device, NoBody, "", "passed")
       ELSE /\ saveThreads' = Without(saveThreads, i)
            /\ lastOp' = Op("save_gate", saveThreads[i].alert.type,
                            saveThreads[i].device, NoBody, "", "stopped")
    /\ prev' = NoPrev
    /\ UNCHANGED <<diskVars, watched_devices, automations, alert_saves, files, clock, resp>>
    /\ UNCHANGED <<storeVars, threadVars, readerVars, seqVars, sanVars, detectVars, raceVars>>

\* Lines 351-393: the directory, the file name and the payload; the file is
\* written, or an exception ends the thread before the try block.
SaveCreate(i, outcome) ==
    /\ i \in 1..Len(saveThreads)
    /\ saveThreads[i].pc = "create"
    /\ IF SaveRaises(saveThreads[i].device, outcome)
       THEN /\ saveThreads' = Without(saveThreads, i)
            /\ files' = files
            /\ save_dir' = (save_dir \/ outcome # "mkdir_fails")
       ELSE /\ saveThreads' =
                 [saveThreads EXCEPT ![i].pc = "log", ![i].ts = clock,
                                     ![i].outcome = outcome]
            /\ files' = WriteFile(files, saveThreads[i], clock, outcome)
            /\ save_dir' = TRUE
    /\ lastOp' = Op("save_create", saveThreads[i].alert.type, saveThreads[i].device,
                    NoBody, "", outcome)
    /\ prev' = NoPrev
    /\ UNCHANGED <<save_log, last_save, last_error, watched_devices, automations, alert_saves, clock, resp>>
    /\ UNCHANGED <<storeVars, threadVars, readerVars, seqVars, sanVars, detectVars, raceVars>>

\* Lines 394-406: the SaveRecord goes on the log, and the thread ends.
SaveAppend(i) ==
    /\ i \in 1..Len(saveThreads)
    /\ saveThreads[i].pc = "log"
    /\ alert_saves' = SaveLog(alert_saves, saveThreads[i], saveThreads[i].ts,
                              saveThreads[i].outcome)
    /\ saveThreads' = Without(saveThreads, i)
    /\ lastOp' = Op("save_append", saveThreads[i].alert.type, saveThreads[i].device,
                    NoBody, "", saveThreads[i].outcome)
    /\ prev' = NoPrev
    /\ UNCHANGED <<diskVars, watched_devices, automations, files, clock, resp>>
    /\ UNCHANGED <<storeVars, threadVars, readerVars, seqVars, sanVars, detectVars, raceVars>>

NextRace ==
    \/ \E t \in Threads, j \in RaceInputs : RaceAppend(t, j)
    \/ \E t \in Threads : WatchCheck(t)
    \/ \E t \in Threads : WatchInsert(t)
    \/ \E t \in Threads : StartSave(t)
    \/ \E i \in 1..MaxBatch : SaveGate(i)
    \/ LET \* What the filesystem does to the saves of SpecRace.
           RaceOutcomes == {"ok", "open_fails"}
       IN  \E i \in 1..MaxBatch, o \in RaceOutcomes : SaveCreate(i, o)
    \/ \E i \in 1..MaxBatch : SaveAppend(i)
    \/ LET \* POST /api/automations bodies of SpecRace.
           RaceBodies == {[alert_save_enabled |-> b] : b \in BOOLEAN}
       IN  \E b \in RaceBodies : AutomationsPostCall(b)
    \/ Tick

SpecRace == Init /\ [][NextRace]_vars

(***************************************************************************)
(* SpecSaveLog: the save threads of concurrent push_alert calls, with      *)
(* lines 394-406 one step per access to state["alert_saves"]: the list     *)
(* object is looked up, the record is inserted into that object, the       *)
(* first entries are copied, and the copy is stored as the new list.       *)
(* Between the look-up and the insert the thread builds the record         *)
(* (str(out_file), a call), where another thread can run.                  *)
(***************************************************************************)

\* Lines 394 and 402: state["alert_saves"].insert is looked up; the thread
\* holds the list object that is the save log now.
SaveLoad(i) ==
    /\ i \in 1..Len(saveThreads)
    /\ saveThreads[i].pc = "log"
    /\ saveThreads' = [saveThreads EXCEPT ![i].pc = "insert", ![i].stale = FALSE]
    /\ lastOp' = Op("save_load", saveThreads[i].alert.type, saveThreads[i].device,
                    NoBody, "", saveThreads[i].outcome)
    /\ prev' = NoPrev
    /\ UNCHANGED <<diskVars, watched_devices, automations, alert_saves, files, clock, resp>>
    /\ UNCHANGED <<storeVars, threadVars, readerVars, seqVars, sanVars, detectVars, raceVars>>

\* Lines 394-397 and 402-406: insert(0, record) on the list object the
\* thread looked up.  When that object has been replaced meanwhile (stale),
\* the save log does not see the record.  The except branch ends here.
SaveInsert(i) ==
    /\ i \in 1..Len(saveThreads)
    /\ saveThreads[i].pc = "insert"
    /\ alert_saves' =
          IF saveThreads[i].stale THEN alert_saves
          ELSE <<SaveRecord(saveThreads[i], saveThreads[i].ts,
                            saveThreads[i].outcome = "ok")>> \o alert_saves
    /\ saveThreads' = IF saveThreads[i].outcome = "ok"
                      THEN [saveThreads EXCEPT ![i].pc = "slice"]
                      ELSE Without(saveThreads, i)
    /\ lastOp' = Op("save_insert", saveThreads[i].alert.type, saveThreads[i].device,
                    NoBody, "", saveThreads[i].outcome)
    /\ prev' = NoPrev
    /\ UNCHANGED <<diskVars, watched_devices, automations, files, clock, resp>>
    /\ UNCHANGED <<storeVars, threadVars, readerVars, seqVars, sanVars, detectVars, raceVars>>

\* Line 398, right-hand side: state["alert_saves"][:100], a new list.
SaveSlice(i) ==
    /\ i \in 1..Len(saveThreads)
    /\ saveThreads[i].pc = "slice"
    /\ saveThreads' = [saveThreads EXCEPT ![i].pc = "assign",
                                          ![i].copy = Take(alert_saves, MaxSaves)]
    /\ lastOp' = Op("save_slice", saveThreads[i].alert.type, saveThreads[i].device,
                    NoBody, "", saveThreads[i].outcome)
    /\ prev' = NoPrev
    /\ UNCHANGED <<diskVars, watched_devices, automations, alert_saves, files, clock, resp>>
    /\ UNCHANGED <<storeVars, threadVars, readerVars, seqVars, sanVars, detectVars, raceVars>>

\* Line 398, the assignment: the new list becomes state["alert_saves"], and
\* the thread ends.  A thread that has looked the old list up and has not
\* inserted yet is left with an object nobody reads.
SaveAssign(i) ==
    /\ i \in 1..Len(saveThreads)
    /\ saveThreads[i].pc = "assign"
    /\ alert_saves' = saveThreads[i].copy
    /\ saveThreads' =
          Without([k \in 1..Len(saveThreads) |->
                      IF saveThreads[k].pc = "insert"
                      THEN [saveThreads[k] EXCEPT !.stale = TRUE]
                      ELSE saveThreads[k]], i)
    /\ lastOp' = Op("save_assign", saveThreads[i].alert.type, saveThreads[i].device,
                    NoBody, "", saveThreads[i].outcome)
    /\ prev' = NoPrev
    /\ UNCHANGED <<diskVars, watched_devices, automations, files, clock, resp>>
    /\ UNCHANGED <<storeVars, threadVars, readerVars, seqVars, sanVars, detectVars, raceVars>>

NextSaveLog ==
    \/ LET \* The calls of push_alert in SpecSaveLog: sightings of two drones.
           LogInputs ==
               { SaveJob(AlertEntry("drone", "critical", "Drone detected", "AA:01", <<"d", "j", "i">>),
                         Device(DjiMavic, AbsentStr, Id("AA:01"), Id("IEEE802.11"), AbsentSignal)),
                 SaveJob(AlertEntry("drone", "critical", "UAV PHY device", "bb:02", <<>>),
                         Device(Dron, AbsentStr, Id("bb:02"), Id("UAV"), AbsentSignal)) }
       IN  \E t \in Threads, j \in LogInputs : RaceAppend(t, j)
    \/ \E t \in Threads : WatchCheck(t)
    \/ \E t \in Threads : WatchInsert(t)
    \/ \E t \in Threads : StartSave(t)
    \/ \E i \in 1..MaxBatch : SaveGate(i)
    \/ LET \* What the filesystem does to the saves of SpecSaveLog.
           LogOutcomes == {"ok", "open_fails"}
       IN  \E i \in 1..MaxBatch, o \in LogOutcomes : SaveCreate(i, o)
    \/ \E i \in 1..MaxBatch : SaveLoad(i)
    \/ \E i \in 1..MaxBatch : SaveInsert(i)
    \/ \E i \in 1..MaxBatch : SaveSlice(i)
    \/ \E i \in 1..MaxBatch : SaveAssign(i)

SpecSaveLog == Init /\ [][NextSaveLog]_vars

\* The scheduler lets every save thread that can take a step take one.
FairSaveLog ==
    /\ SpecSaveLog
    /\ WF_vars(\E i \in 1..MaxBatch : SaveGate(i))
    /\ WF_vars(\E i \in 1..MaxBatch : SaveCreate(i, "ok"))
    /\ WF_vars(\E i \in 1..MaxBatch : SaveLoad(i))
    /\ WF_vars(\E i \in 1..MaxBatch : SaveInsert(i))
    /\ WF_vars(\E i \in 1..MaxBatch : SaveSlice(i))
    /\ WF_vars(\E i \in 1..MaxBatch : SaveAssign(i))

(***************************************************************************)
(* SpecGate: push_alert with a device on concurrent request threads, step  *)
(* by step, and the save threads it starts, beside an operator who         *)
(* switches save_watched_only and deletes a watchlist entry.               *)
(***************************************************************************)
\* The calls of push_alert in SpecGate: a sighting of a drone (the drone rule
\* fires), and a strong signal of a Wi-Fi device (no rule fires while
\* strong_signal is off).
GateInputs ==
    { SaveJob(AlertEntry("drone", "critical", "Drone detected", "AA:01", <<"d", "j", "i">>),
              Device(DjiMavic, AbsentStr, Id("AA:01"), Id("IEEE802.11"), AbsentSignal)),
      SaveJob(AlertEntry("signal", "warning", "Strong signal", "bb:02", <<>>),
              Device(Dron, AbsentStr, Id("bb:02"), Id("IEEE802.11"), Strong)) }

NextGate ==
    \/ \E t \in Threads, j \in GateInputs : RaceAppend(t, j)
    \/ \E t \in Threads : WatchCheck(t)
    \/ \E t \in Threads : WatchInsert(t)
    \/ \E t \in Threads : StartSave(t)
    \/ \E i \in 1..MaxBatch : SaveGate(i)
    \/ \E i \in 1..MaxBatch : SaveCreate(i, "ok")
    \/ \E i \in 1..MaxBatch : SaveAppend(i)
    \/ LET \* POST /api/automations bodies of SpecGate.
           GateBodies == {[save_watched_only |-> b] : b \in BOOLEAN}
       IN  \E b \in GateBodies : AutomationsPostCall(b)
    \/ LET \* DELETE /api/watchlist/<mac> of SpecGate.
           GateRemoveArgs == {"AA:01"}
       IN  \E m \in GateRemoveArgs : WatchlistRemoveCall(m)

SpecGate == Init /\ [][NextGate]_vars

(***************************************************************************)
(* SpecRaceWatch: push_alert on concurrent request threads, step by step   *)
(* through _auto_watch_device, beside an operator who adds and deletes the *)
(* watchlist entry of the same identifier.                                 *)
(***************************************************************************)
\* The operator's POST /api/watchlist and DELETE /api/watchlist/<mac> for the
\* identifier of the drone.
RaceAddBodies == {AddBody(Id("AA:01"), Dron, AbsentId)}

NextRaceWatch ==
    \/ \E t \in Threads, j \in RaceInputs : RaceAppend(t, j)
    \/ \E t \in Threads : WatchCheck(t)
    \/ \E t \in Threads : WatchInsert(t)
    \/ \E t \in Threads : StartSave(t)
    \/ \E b \in RaceAddBodies : WatchlistAddCall(b)
    \/ LET RaceRemoveArgs == {"AA:01"}
       IN  \E m \in RaceRemoveArgs : WatchlistRemoveCall(m)

SpecRaceWatch == Init /\ [][NextRaceWatch]_vars

(***************************************************************************)
(* SpecConfig: POST /api/automations, whole, beside push_alert calls that  *)
(* fill the alert store, the watchlist and the save threads.               *)
(***************************************************************************)
\* The flags and the rules api_automations writes (lines 681, 685).
FLAGS == {"alert_save_enabled", "save_device_details", "save_device_traffic",
          "save_watched_only"}
RULES == {"drone_alerts", "btle_alerts", "strong_signal"}

\* POST /api/automations bodies: no key; one flag; one rule; a flag, a rule
\* and an unknown key; an unknown key alone; an auto_watch_rules that is not
\* a dict.
ConfigBodies ==
    {EmptyDict}
    \cup {[k \in {f} |-> b] : f \in FLAGS \cup RULES, b \in BOOLEAN}
    \cup {[alert_save_enabled |-> FALSE, strong_signal |-> TRUE, schedule |-> TRUE],
          [schedule |-> TRUE],
          [auto_watch_rules |-> TRUE]}

NextConfig ==
    \/ \E b \in ConfigBodies : AutomationsPostCall(b)
    \/ LET \* push_alert for a drone sighting with its device.
           ConfigPushes ==
               { <<AlertEntry("drone", "critical", "Drone detected", "AA:01", <<"d", "j", "i">>),
                   Device(DjiMavic, AbsentStr, Id("AA:01"), Id("IEEE802.11"), AbsentSignal)>> }
       IN  \E p \in ConfigPushes :
              Len(saveThreads) < MaxBatch /\ PushAlertCall(p[1], p[2])

SpecConfig == Init /\ [][NextConfig]_vars

(***************************************************************************)
(* SpecIngest: analyze_devices called again and again, on lists of records *)
(* and on arguments that are not lists, beside the save threads it starts. *)
(***************************************************************************)
\* What analyze_devices is called with beside a list: null, a number, an
\* empty dict.
OtherInputs == {"None", "int", "dict"}

NextIngest ==
    \/ \E k \in OtherInputs \cup {"list"}, n \in 1..MaxBatch : AnalyzeInput(k, n)
    \/ \E d \in LifeDevices : Len(saveThreads) < MaxBatch /\ AnalyzeRecord(d)
    \/ AnalyzeReturn
    \/ \E i \in 1..MaxBatch : SaveRun(i, "ok")
    \/ Tick

SpecIngest == Init /\ [][NextIngest]_vars

(***************************************************************************)
(* SpecOrder: analyze_devices called on two request threads at once, each  *)
(* push_alert of a batch step by step (the append under the lock, the      *)
(* watch policy, the start of the save thread), beside a clear.            *)
(***************************************************************************)
\* The devices argument of each thread's call: a named drone on the UAV PHY
\* with a strong signal (three alerts), and a UAV without a keyword in its
\* name, with a strong signal, under another identifier (two alerts).
OrderDevices ==
    [t \in Threads |->
        IF t = "t1" THEN <<Device(DjiMavic, AbsentStr, Id("AA:01"), Id("UAV"), Strong)>>
        ELSE <<Device(Dron, AbsentStr, Id("bb:02"), Id("UAV"), Strong)>>]

\* Lines 462-499: the push_alert calls of a batch in program order, each
\* with the record it is made for.
RECURSIVE BatchJobs(_)
BatchJobs(ds) ==
    IF ds = <<>> THEN <<>>
    ELSE [i \in 1..Len(AlertsOf[Head(ds)]) |-> SaveJob(AlertsOf[Head(ds)][i], Head(ds))]
         \o BatchJobs(Tail(ds))

OrderJobs == [t \in Threads |-> BatchJobs(OrderDevices[t])]

\* Lines 439-450 inside analyze_devices: thread t makes the next push_alert of
\* its batch, and appends the entry under ALERT_LOCK.
AnalyzePush(t) ==
    /\ wpc[t] = "idle"
    /\ bidx[t] < Len(OrderJobs[t])
    /\ bidx' = [bidx EXCEPT ![t] = bidx[t] + 1]
    /\ alerts' = PushStore(alerts, OrderJobs[t][bidx[t] + 1].alert)
    /\ hist' = <<OrderJobs[t][bidx[t] + 1].alert>> \o hist
    /\ wjob' = [wjob EXCEPT ![t] = OrderJobs[t][bidx[t] + 1]]
    /\ done' = [done EXCEPT ![t] = [NoStages EXCEPT !.append = TRUE]]
    /\ wpc' = [wpc EXCEPT ![t] = StageAfter("append")]
    /\ UNCHANGED <<lock, threadVars, readerVars, seqVars, sanVars, detectVars, autoVars, overwritten>>

NextOrder ==
    \/ \E t \in Threads : AnalyzePush(t)
    \/ \E t \in Threads : WatchCheck(t)
    \/ \E t \in Threads : WatchInsert(t)
    \/ \E t \in Threads : StartSave(t)
    \/ ClearCall

SpecOrder == Init /\ [][NextOrder]_vars

(***************************************************************************)
(* SpecIds: the identifiers of the alert store.  clock is time.time() in   *)
(* milliseconds, read by push_alert inside the lock (line 446) and by      *)
(* _seed_dummy_alerts at start-up; here it never goes back.                *)
(***************************************************************************)
\* Lines 440-447: the alert_entry with its "id".
Stamped(e, ms) ==
    [type |-> e.type, severity |-> e.severity, title |-> e.title, mac |-> e.mac,
     kw |-> e.kw, id |-> ms]

\* _seed_dummy_alerts, lines 236-291: the seeded events, newest first, each
\* with the milliseconds its id lies before the clock reading.
SEEDS ==
    << [e |-> AlertEntry("drone", "critical", "Drone detected: DJI-Mavic-3-Pro", "60:60:1F:AA:BB:CC", <<>>), age |-> 30000],
       [e |-> AlertEntry("drone", "critical", "UAV PHY device: UAV-RemoteID-0x4F2A", "A0:B1:C2:D3:E4:F5", <<>>), age |-> 45000],
       [e |-> AlertEntry("drone", "critical", "Drone detected: Parrot-ANAFI", "90:3A:E6:DD:EE:FF", <<>>), age |-> 60000],
       [e |-> AlertEntry("signal", "warning", "Strong signal: DJI-Mavic-3-Pro", "60:60:1F:AA:BB:CC", <<>>), age |-> 120000],
       [e |-> AlertEntry("signal", "warning", "Strong signal: UniFi-AP-Pro", "55:EE:66:FF:77:00", <<>>), age |-> 180000],
       [e |-> AlertEntry("signal", "warning", "Strong signal: HomeNetwork_5G", "AA:BB:CC:11:22:33", <<>>), age |-> 240000],
       [e |-> AlertEntry("signal", "warning", "Strong signal: AirPods-Pro", "BB:CC:DD:44:55:66", <<>>), age |-> 300000],
       [e |-> AlertEntry("kismet", "info", "New SSID detected", "", <<>>), age |-> 500000],
       [e |-> AlertEntry("save", "info", "Batch save complete: 28 devices", "", <<>>), age |-> 600000],
       [e |-> AlertEntry("kismet", "warning", "Deauthentication flood detected", "", <<>>), age |-> 900000],
       [e |-> AlertEntry("kismet", "info", "Channel hop complete", "", <<>>), age |-> 1200000] >>

\* _seed_dummy_alerts, lines 233-293: the list it assigns to state["alerts"],
\* cut to the MaxSeeds newest.
SeedDummyAlerts(ms) ==
    [i \in 1..MaxSeeds |-> Stamped(SEEDS[i].e, ms - SEEDS[i].age)]

\* Start-up in demo mode, lines 1742-1744: the store is seeded before the
\* first push.
SeedCall ==
    /\ hist = <<>>
    /\ alerts = <<>>
    /\ alerts' = SeedDummyAlerts(clock)
    /\ hist' = SeedDummyAlerts(clock)
    /\ UNCHANGED <<lock, threadVars, readerVars, seqVars, sanVars, detectVars, autoVars, raceVars>>

\* push_alert(e.type, ..., device=None), lines 438-457, whole, with the id
\* of the entry.
PushStamped(e) ==
    /\ Len(hist) <= MAX_ALERTS + MaxSeeds
    /\ alerts' = PushStore(alerts, Stamped(e, clock))
    /\ hist' = <<Stamped(e, clock)>> \o hist
    /\ lastOp' = Op("push", e.type, NoDevice, NoBody, "", "")
    /\ prev' = Before
    /\ UNCHANGED <<diskVars, watched_devices, automations, alert_saves, files,
                   saveThreads, clock, resp>>
    /\ UNCHANGED <<lock, threadVars, readerVars, seqVars, sanVars, detectVars, raceVars>>

NextIds ==
    \/ SeedCall
    \/ LET \* The calls of push_alert in SpecIds: the events of do_save.
           IdInputs ==
               { AlertEntry("save", "info", "Batch save complete", "", <<>>),
                 AlertEntry("error", "error", "Batch save failed", "", <<>>) }
       IN  \E e \in IdInputs : PushStamped(e)
    \/ Tick

SpecIds == Init /\ [][NextIds]_vars

(***************************************************************************)
(* SpecSanitize: _sanitize_filename called on one string after another.    *)
(***************************************************************************)
\* The arguments s: every string of at most three characters, and strings
\* about as long as the cap, with a colon before, at and behind it.
SanInputs ==
    LET \* The characters of the arguments: a letter, a digit, the hyphen and
        \* the underscore, which the function keeps, and a colon and a space,
        \* which it replaces.
        SanChars == {"a", "0", "-", "_", ":", " "}
        \* The string of n characters that has a colon at the positions of at
        \* and "a" everywhere else.
        LongString(n, at) == [i \in 1..n |-> IF i \in at THEN ":" ELSE "a"]
    IN  UNION {[1..n -> SanChars] : n \in 0..3}
        \cup {LongString(n, at) :
                n \in (SANITIZE_CAP - 1)..(SANITIZE_CAP + 2),
                at \in {{}, {1}, {SANITIZE_CAP}, {SANITIZE_CAP + 1},
                        {1, SANITIZE_CAP + 1}}}

\* _sanitize_filename(s), lines 333-335: one call.
SanitizeCall(s) ==
    /\ san_arg' = s
    /\ san_ret' = Sanitize(s)
    /\ UNCHANGED <<storeVars, threadVars, readerVars, seqVars, detectVars, autoVars, raceVars>>

NextSanitize == \E s \in SanInputs : SanitizeCall(s)

SpecSanitize == Init /\ [][NextSanitize]_vars

(***************************************************************************)
(* Alert store: capacity, order, readers.                                  *)
(***************************************************************************)
\* C1: in every reachable state of any interleaving of push_alert and
\* api_alerts_clear calls the alert store holds at most MAX_ALERTS events.
C1_StoreWithinCapacity == Len(alerts) <= MAX_ALERTS

\* The bound does hold whenever no thread is inside the critical section.
StoreWithinCapacityUnlocked == lock = Free => Len(alerts) <= MAX_ALERTS

\* C2: the store is exactly the newest MAX_ALERTS entries inserted since the
\* last clear, newest first: an insert puts the entry at the head and removes
\* nothing (between insert and evict the store is the newest MAX_ALERTS + 1
\* entries), and the evict step removes the oldest entry, and only when the
\* length exceeds the capacity.
C2_StoreIsNewestCapacity ==
    alerts = Take(hist, IF \E t \in Threads : tpc[t] = "evict"
                        THEN MAX_ALERTS + 1 ELSE MAX_ALERTS)

\* capacity + 1 entries were pushed, the calls are over, the first-pushed
\* entry is gone and the newest MAX_ALERTS remain.
C2_Witness ==
    /\ lock = Free
    /\ Len(hist) = MAX_ALERTS + 1
    /\ Len(alerts) = MAX_ALERTS
    /\ hist[MAX_ALERTS + 1] \notin Range(alerts)
    /\ alerts = SubSeq(hist, 1, MAX_ALERTS)

\* C3: a query never observes the store mid-eviction: no list a query returns
\* is the intermediate state that holds capacity + 1 events.
C3_QueryNeverSeesMidEviction == qpc = "done" => Len(qres) <= MAX_ALERTS

\* The events of the store that match both filters, in store order; a filter
\* that is not given (or is empty) matches every event.
Matching(store, severity, atype) ==
    LET Match(a) == /\ (severity \notin {None, ""} => a.severity = severity)
                    /\ (atype \notin {None, ""} => a.type = atype)
    IN  SelectSeq(store, Match)

\* C4: for every store content, filters and limit value, api_alerts returns
\* exactly the first `limit` events, in store order, of the events that match
\* both given filters (no event for a limit of zero or less).
C4_QueryReturnsFirstLimit ==
    qpc = "done" => qres = Take(Matching(alerts, qsev, qtype), LimitArg(qlimit))

\* What does hold: the same for every limit that is not negative.
QueryReturnsFirstLimitNonNegative ==
    (qpc = "done" /\ LimitArg(qlimit) >= 0)
        => qres = Take(Matching(alerts, qsev, qtype), LimitArg(qlimit))

\* C5: a query that follows api_alerts_clear with no push_alert in between
\* returns an empty result, whatever the store held and whatever the filters.
C5_QueryAfterClearIsEmpty == (qpc = "done" /\ qwiped >= 0) => qres = <<>>

\* A full store was cleared and then queried without filters or limit.
C5_Witness ==
    /\ qpc = "done" /\ qwiped = MAX_ALERTS
    /\ ~Truthy(qsev) /\ ~Truthy(qtype) /\ qlimit = <<>>
    /\ qres = <<>>

(***************************************************************************)
(* Detector rules.  The claims are read off the record under evaluation    *)
(* once its loop iteration is over: dev is the record, emitted the entries *)
(* pushed for it, in order.                                                *)
(***************************************************************************)
RecordDone == dev.shape # "none" /\ apc \in {"loop", "idle"}

\* Index in DRONE_KEYWORDS of the first keyword the record's lower-cased
\* name + " " + manufacturer string contains; 0 when there is none, or when
\* the record has no such string (not a dict, a field that is not a string).
FirstKeywordIx ==
    [d \in Devices |->
        IF d.shape # "dict" \/ SsidOf(d).k # "str" \/ ManufOf(d).k # "str" THEN 0
        ELSE LET text == Lower(SsidOf(d).v \o <<" ">> \o ManufOf(d).v)
                 hits == {i \in 1..Len(DRONE_KEYWORDS) : Contains(DRONE_KEYWORDS[i], text)}
             IN  IF hits = {} THEN 0 ELSE CHOOSE i \in hits : \A j \in hits : i <= j]

HasKeyword(d) == FirstKeywordIx[d] > 0
HasUavPhy(d) == d.shape = "dict" /\ d.phy.k = "str" /\ d.phy.v = "UAV"
\* The record carries a last-seen signal above the threshold.
HasStrongSignal(d) ==
    /\ d.shape = "dict" /\ d.signal.k = "dict" /\ d.signal.last.k = "int"
    /\ d.signal.last.v > INTERESTING_SIGNAL
\* Lines 464-472 read the record without raising.
Readable(d) ==
    /\ d.shape = "dict"
    /\ d.signal.k \in {"dict", "absent"}
    /\ d.name.k \in {"str", "absent"}
    /\ d.manuf.k \in {"str", "absent"}
\* The watchlist can look the record's identifier up (line 414).
HashableMac(d) == d.mac.k # "list"
\* Nothing in the try body raises on the record.
WellFormed(d) ==
    Readable(d) /\ d.signal.last.k \in {"int", "absent"} /\ HashableMac(d)

WithTitle(es, title) == SelectSeq(es, LAMBDA e : e.title = title)
WithType(es, atype) == SelectSeq(es, LAMBDA e : e.type = atype)
Titles(es) == [i \in 1..Len(es) |-> es[i].title]
IsDroneCritical(e, d) == e.type = "drone" /\ e.severity = "critical" /\ e.mac = d.mac.v

\* The keyword rule's part of the claim C6 for the record just evaluated.
KeywordRuleHolds ==
    LET kwev == WithTitle(emitted, "Drone detected")
    IN  /\ Len(kwev) = 1
        /\ IsDroneCritical(kwev[1], dev)
        /\ kwev[1].kw = DRONE_KEYWORDS[FirstKeywordIx[dev]]

\* C6 as claimed: every record whose name + manufacturer string contains a
\* keyword gets exactly one keyword drone/critical event that references its
\* identifier and names the first matching keyword.
C6_KeywordRecordYieldsDroneAlert ==
    (RecordDone /\ HasKeyword(dev)) => KeywordRuleHolds

\* C6 as amended: the same for every such record that lines 464-472 can read
\* (its signal field is a dict or missing).
C6_ReadableKeywordRecordYieldsDroneAlert ==
    (RecordDone /\ HasKeyword(dev) /\ Readable(dev)) => KeywordRuleHolds

\* "DJI Mavic" (two keywords, upper case) was evaluated: one event, for "dji".
C6_Witness ==
    /\ RecordDone /\ Readable(dev) /\ dev.name = DjiMavic
    /\ Len(WithTitle(emitted, "Drone detected")) = 1
    /\ emitted[1].kw = <<"d", "j", "i">>
    /\ emitted[1].mac = dev.mac.v

\* The PHY rule's part of the claim C7 for the record just evaluated.
PhyRuleHolds ==
    LET phyev == WithTitle(emitted, "UAV PHY device")
    IN  /\ Len(phyev) = 1
        /\ IsDroneCritical(phyev[1], dev)
        /\ Len(WithType(emitted, "drone")) = (IF HasKeyword(dev) THEN 2 ELSE 1)

SignalRuleHolds ==
    LET sigev == WithTitle(emitted, "Strong signal")
    IN  /\ Len(sigev) = (IF HasStrongSignal(dev) THEN 1 ELSE 0)
        /\ \A i \in 1..Len(sigev) :
              /\ sigev[i].type = "signal" /\ sigev[i].severity = "warning"
              /\ sigev[i].mac = dev.mac.v

RuleOrders ==
    { <<>>, <<"Drone detected">>, <<"UAV PHY device">>, <<"Strong signal">>,
      <<"Drone detected", "UAV PHY device">>, <<"Drone detected", "Strong signal">>,
      <<"UAV PHY device", "Strong signal">>,
      <<"Drone detected", "UAV PHY device", "Strong signal">> }

\* C9: a well-formed record gets at most one keyword event, then at most one
\* PHY event, then at most one signal event, all for its identifier; with a
\* keyword, a non-UAV phy and a strong signal it gets exactly one drone event
\* and one signal event.
C9_RuleOrderPerRecord ==
    (RecordDone /\ WellFormed(dev)) =>
        /\ Titles(emitted) \in RuleOrders
        /\ \A i \in 1..Len(emitted) : emitted[i].mac = dev.mac.v
        /\ (HasKeyword(dev) /\ ~HasUavPhy(dev) /\ HasStrongSignal(dev)) =>
              /\ Len(emitted) = 2
              /\ emitted[1].type = "drone" /\ emitted[2].type = "signal"

\* The scenario's record: keyword "dji", phy IEEE802.11, signal above -60.
C9_Witness ==
    /\ RecordDone /\ WellFormed(dev)
    /\ HasKeyword(dev) /\ ~HasUavPhy(dev) /\ HasStrongSignal(dev)
    /\ Titles(emitted) = <<"Drone detected", "Strong signal">>
    /\ emitted[1].kw = <<"d", "j", "i">>
    /\ emitted[1].mac = emitted[2].mac

\* The alerts the three rules call for on a record.
CalledFor(d) ==
    (IF HasKeyword(d) THEN <<"Drone detected">> ELSE <<>>)
    \o (IF HasUavPhy(d) THEN <<"UAV PHY device">> ELSE <<>>)
    \o (IF HasStrongSignal(d) THEN <<"Strong signal">> ELSE <<>>)

\* C10: no exception leaves analyze_devices, and a well-formed record that
\* comes after a failing record of the batch gets every alert its rules call
\* for.
C10_FailureDoesNotAbortBatch ==
    /\ apc # "raised"
    /\ (RecordDone /\ failed /\ WellFormed(dev)) => Titles(emitted) = CalledFor(dev)

\* A record failed, and a later record of the batch got all three alerts.
C10_Witness ==
    /\ RecordDone /\ failed /\ WellFormed(dev)
    /\ Len(emitted) = 3
    /\ Titles(emitted) = CalledFor(dev)

(***************************************************************************)
(* Watch policy and watchlist.                                             *)
(***************************************************************************)
\* The rule of the watch policy that applies to a category and a PHY tag is
\* enabled.
RuleApplies(rules, atype, phy) ==
    \/ atype = "drone" /\ rules.drone_alerts
    \/ atype \in {"signal", "kismet"} /\ phy.k = "str" /\ phy.v \in {"BTLE", "Bluetooth"}
         /\ rules.btle_alerts
    \/ atype = "signal" /\ rules.strong_signal
NoRuleEnabled(rules) ==
    ~rules.drone_alerts /\ ~rules.btle_alerts /\ ~rules.strong_signal
\* The last call was _auto_watch_device with a device that has a non-empty
\* identifier the watchlist did not hold.
WatchCandidate ==
    /\ lastOp.op = "auto_watch"
    /\ lastOp.device # NoDevice
    /\ TruthyId(lastOp.device.mac)
    /\ lastOp.device.mac.v \notin DOMAIN prev.watched

\* C12: for an attached device with a non-empty identifier that is not yet
\* watchlisted, _auto_watch_device adds it exactly when an applicable rule is
\* enabled (drone category and drone_alerts; signal or kismet category, PHY
\* BTLE or Bluetooth and btle_alerts; signal category and strong_signal);
\* with every rule disabled no call adds an entry.
C12_AddsIffAnApplicableRuleIsEnabled ==
    /\ WatchCandidate =>
          (lastOp.device.mac.v \in DOMAIN watched_devices
             <=> RuleApplies(automations.auto_watch_rules, lastOp.atype,
                             Get(lastOp.device.phy, Id(""))))
    /\ (lastOp.op = "auto_watch" /\ NoRuleEnabled(automations.auto_watch_rules))
          => watched_devices = prev.watched

\* C12 witness: the btle rule alone adds a Bluetooth device on a kismet
\* event, and a candidate is left out when its only rule is disabled.
C12_Witness ==
    /\ WatchCandidate
    /\ lastOp.atype = "kismet"
    /\ ~automations.auto_watch_rules.drone_alerts
    /\ ~automations.auto_watch_rules.strong_signal
    /\ lastOp.device.mac.v \in DOMAIN watched_devices
    /\ watched_devices[lastOp.device.mac.v].auto = "True"

\* C18: a manual watchlist add whose mac is missing or empty is rejected
\* with status 400 and an error reason, and changes nothing: not the
\* watchlist, the automations, the alert store, the save log, the files or
\* the save threads.
C18_AddWithoutIdentifierIsRejected ==
    [][\A b \in AddBodies :
          (WatchlistAddCall(b) /\ b.mac.k # "none" /\ Get(b.mac, Id("")).v = "")
          => /\ resp'.status = 400 /\ ~resp'.ok /\ resp'.error # ""
             /\ UNCHANGED <<watched_devices, automations, alerts, alert_saves,
                            files, saveThreads>>]_vars

\* C18 witness: the last request was an add with an empty mac, answered 400,
\* on a watchlist that holds entries.
C18_Witness ==
    /\ lastOp.op = "watchlist_add"
    /\ lastOp.body.mac = Id("")
    /\ resp.status = 400
    /\ resp.error = "MAC required"
    /\ DOMAIN watched_devices # {}

\* C20: after a delete request for identifier m the watchlist holds no entry
\* for m, whether the entry was added manually or automatically and
\* whatever the letter case the device reported.
C20_DeleteRemovesTheEntry ==
    lastOp.op = "watchlist_remove" => lastOp.mac \notin DOMAIN watched_devices

\* A delete request removes the entry stored under the upper-cased
\* identifier: every manual entry, and an automatic entry of a device that
\* reports its identifier in upper case.
DeleteRemovesTheUpperCasedEntry ==
    lastOp.op = "watchlist_remove" => Upper(lastOp.mac) \notin DOMAIN watched_devices

\* Called one after another, the second _auto_watch_device for an identifier
\* leaves the watchlist as the first left it.
SecondWatchInSequenceIsNoOp ==
    (/\ lastOp.op = "auto_watch"
     /\ lastOp.device # NoDevice
     /\ Get(lastOp.device.mac, Id("")).v \in DOMAIN prev.watched)
    => watched_devices = prev.watched

(***************************************************************************)
(* Save automation.  The claims are read off the last save thread that     *)
(* ran: lastOp holds its alert category, its device and what the           *)
(* filesystem did; prev.saves is the save log it found.                    *)
(***************************************************************************)
\* The identifier the save gate looks up (line 347).
SavedMac == Get(lastOp.device.mac, Id("")).v
\* The last save run put exactly one SaveRecord, its own, on top of the log
\* it found (the log below it is as it was, or trimmed).
AppendedOne ==
    /\ alert_saves # <<>>
    /\ Head(alert_saves).alert_type = lastOp.atype
    /\ Head(alert_saves).device = DevName(lastOp.device)
    /\ Tail(alert_saves) \in {prev.saves, Take(prev.saves, MaxSaves - 1)}
AppendedNone == alert_saves = prev.saves /\ files = prev.files
\* The last call was a save run with saving enabled, content selected and
\* the watched-only restriction on.
WatchedOnlyRun ==
    /\ lastOp.op = "save"
    /\ automations.alert_save_enabled
    /\ automations.save_device_details \/ automations.save_device_traffic
    /\ automations.save_watched_only

\* C13: with save_watched_only on and saving otherwise enabled, a save run
\* appends no SaveRecord when the alert's device identifier is not in the
\* watchlist, and exactly one when it is.
C13_WatchedOnlySavesExactlyTheWatched ==
    WatchedOnlyRun =>
        IF SavedMac \in DOMAIN watched_devices THEN AppendedOne ELSE AppendedNone

\* The watched-only gate itself filters as claimed: an unwatched device is
\* never saved, and a watched one is saved once whenever the save directory
\* can be created.
WatchedOnlyGateFilters ==
    (WatchedOnlyRun /\ lastOp.outcome # "mkdir_fails") =>
        IF SavedMac \in DOMAIN watched_devices THEN AppendedOne ELSE AppendedNone

\* C15: after any sequence of save attempts, successful or failing, the save
\* log holds at most the capacity (100 in the program) and is ordered
\* newest first: a run's record goes on top, the older ones keep their order.
C15_SaveLogBoundedNewestFirst ==
    /\ Len(alert_saves) <= MaxSaves
    /\ (lastOp.op = "save" /\ alert_saves # prev.saves)
          => Tail(alert_saves) = Take(prev.saves, Len(alert_saves) - 1)

\* The order alone: every record goes on top of the log.
SaveLogNewestFirst ==
    (lastOp.op = "save" /\ alert_saves # prev.saves)
        => Tail(alert_saves) = Take(prev.saves, Len(alert_saves) - 1)

\* The capacity holds after every successful save.
SaveLogTrimmedAfterSuccess ==
    (lastOp.op = "save" /\ lastOp.outcome = "ok" /\ ~AppendedNone)
        => Len(alert_saves) <= MaxSaves

\* C16: a save run that passes the three gates appends exactly one
\* SaveRecord, ok after a successful write, not ok with the error text after
\* any failure while creating the artifact, and no exception leaves it.
C16_SaveFailureIsRecordedNotRaised ==
    (lastOp.op = "save" /\ GatesPass(automations, watched_devices, lastOp.device))
    => /\ AppendedOne
       /\ Head(alert_saves).ok = (lastOp.outcome = "ok")
       /\ ~Head(alert_saves).ok => Head(alert_saves).error # ""
       /\ ~lastOp.raised

\* A failure inside the try block (open, json.dump) is recorded and not
\* raised, for every device whose label is a string.
WriteFailureIsRecordedNotRaised ==
    (/\ lastOp.op = "save"
     /\ GatesPass(automations, watched_devices, lastOp.device)
     /\ lastOp.outcome # "mkdir_fails"
     /\ DevName(lastOp.device).k = "str")
    => /\ AppendedOne
       /\ Head(alert_saves).ok = (lastOp.outcome = "ok")
       /\ ~Head(alert_saves).ok => Head(alert_saves).error # ""
       /\ ~lastOp.raised

\* C19: a watchlist entry, once present, stays present until a delete
\* request for its identifier: no ingestion, save thread, poll, alert clear,
\* change of the automations or watchlist add removes an entry.
C19_EntriesStayUntilDeleted ==
    [][\A m \in DOMAIN watched_devices :
          \/ m \in DOMAIN watched_devices'
          \/ \E x \in RemoveArgs \cup LifeRemoveArgs :
                WatchlistRemoveCall(x) /\ Upper(x) = m]_vars

\* C19 witness: an automatic and a manual entry are in the watchlist after
\* an ingestion, a change of the automations, a clear, a poll and a save.
C19_Witness ==
    /\ DOMAIN watched_devices = {"AA:01", "BB:02"}
    /\ watched_devices["AA:01"].auto = "True"
    /\ automations.save_watched_only
    /\ wiped >= 0
    /\ alerts # <<>> /\ alerts[1].type = "kismet"
    /\ lastOp.op = "save"
    /\ alert_saves # <<>>

(***************************************************************************)
(* Concurrent callers: watch policy, save automation, order of the stages. *)
(***************************************************************************)
\* C11: two invocations of _auto_watch_device for one device identifier,
\* one after the other or concurrent, leave one watchlist entry for it, and
\* the second leaves the entry the first wrote unchanged.
C11_SecondWatchLeavesTheEntry ==
    /\ ~overwritten
    /\ \A m \in DOMAIN watched_devices : watched_devices[m].mac = m

\* C14 as claimed: while alert_save_enabled stays false, no SaveRecord is
\* appended and no file is written, by any save thread, those dispatched
\* before the flag changed included; and a save run that finds the flag
\* true again, with the other gates open, goes on to save.
C14_NoSaveWhileDisabled ==
    [][/\ (~automations.alert_save_enabled /\ ~automations'.alert_save_enabled)
          => UNCHANGED <<alert_saves, files>>
       /\ \A i \in 1..Len(saveThreads) :
            (/\ SaveGate(i)
             /\ automations.alert_save_enabled
             /\ automations.save_device_details \/ automations.save_device_traffic
             /\ automations.save_watched_only =>
                   Get(saveThreads[i].device.mac, Id("")).v \in DOMAIN watched_devices)
            => Len(saveThreads') = Len(saveThreads) /\ saveThreads'[i].pc = "create"]_vars

\* C14 as the code has it: a save run that reads alert_save_enabled false
\* at its gate (line 340) ends there, whatever the other flags, also when
\* its thread was dispatched before the flag changed; every SaveRecord and
\* every file comes from a run that read the flag true at its gate (a run
\* past the gate is not cancelled when the flag is cleared); and a run that
\* finds the flag true again, with the other gates open, goes on to save.
C14_NoSaveGatedWhileDisabled ==
    [][/\ \A i \in 1..Len(saveThreads) :
            (SaveGate(i) /\ ~automations.alert_save_enabled)
            => /\ Len(saveThreads') = Len(saveThreads) - 1
               /\ UNCHANGED <<alert_saves, files>>
       /\ (alert_saves' # alert_saves \/ files' # files)
            => \E i \in 1..Len(saveThreads) :
                  /\ saveThreads[i].pc \in {"create", "log"}
                  /\ saveThreads[i].enabled
                  /\ Len(saveThreads') < Len(saveThreads) \/ saveThreads'[i].pc = "log"
       /\ \A i \in 1..Len(saveThreads) :
            (/\ SaveGate(i)
             /\ automations.alert_save_enabled
             /\ automations.save_device_details \/ automations.save_device_traffic
             /\ automations.save_watched_only =>
                   Get(saveThreads[i].device.mac, Id("")).v \in DOMAIN watched_devices)
            => Len(saveThreads') = Len(saveThreads) /\ saveThreads'[i].pc = "create"]_vars

\* C14 witness: with the flag cleared, one save run has just been stopped at
\* its gate and nothing is saved, while another run, past its gate, has
\* written its file.
C14_Witness ==
    /\ ~automations.alert_save_enabled
    /\ lastOp.op = "save_gate" /\ lastOp.outcome = "stopped"
    /\ alert_saves = <<>>
    /\ \E i \in 1..Len(saveThreads) : saveThreads[i].pc = "log" /\ saveThreads[i].enabled

\* C17: for every event the append to the alert store is complete before
\* the watch policy is evaluated, and the watch policy is complete before the
\* save automation for the event starts.
C17_AppendThenWatchThenSave ==
    \A t \in Threads :
        /\ wpc[t] \in {"watch", "insert"} => done[t].append /\ ~done[t].save
        /\ done[t].watch => done[t].append
        /\ done[t].save => done[t].watch
        /\ done[t].append => wjob[t].alert \in Range(hist)

\* C17 witness: an event with a device has been appended, has put its
\* device on the watchlist and has started its save thread, which has run to
\* its SaveRecord.
C17_Witness ==
    \E t \in Threads :
        /\ done[t].append /\ done[t].watch /\ done[t].save
        /\ wjob[t].device # NoDevice
        /\ wjob[t].device.mac.v \in DOMAIN watched_devices
        /\ alert_saves # <<>>
        /\ Head(alert_saves).device = DevName(wjob[t].device)

(***************************************************************************)
(* Save automation: the artifact and the gates.                            *)
(***************************************************************************)
\* C22: no two save attempts target the same file path: the SaveRecords of
\* the log name pairwise different files, also for two events of one
\* category for one device saved within the same second.
C22_SavesTargetDistinctFiles ==
    \A i, j \in 1..Len(alert_saves) :
        i # j => alert_saves[i].file # alert_saves[j].file

\* The last save run found gate (a) or gate (b) closed.
ClosedGateRun ==
    /\ lastOp.op = "save"
    /\ \/ ~automations.alert_save_enabled
       \/ ~automations.save_device_details /\ ~automations.save_device_traffic

\* C25: a save run that finds alert_save_enabled false, or both
\* save_device_details and save_device_traffic false, creates no directory
\* and no file and leaves the alert save log as it was.
C25_ClosedGateLeavesNoTrace ==
    ClosedGateRun =>
        /\ save_dir = prev.save_dir
        /\ files = prev.files
        /\ alert_saves = prev.saves

\* C25 witness: a save run has found the content gate closed with the
\* master flag on, the watched-only restriction off and SAVE_DIR not yet
\* there, and another has found the master flag off.
C25_Witness ==
    /\ ClosedGateRun
    /\ ~save_dir
    /\ \/ automations.alert_save_enabled /\ ~automations.save_watched_only
       \/ automations.save_device_details

(***************************************************************************)
(* The poll of the upstream alert feed, and events without a device.       *)
(***************************************************************************)
\* C21: a poll whose fetch fails raises no exception and appends exactly one
\* event, of category error and severity error, to the alert store.
C21_FailedFetchPushesOneErrorEvent ==
    (lastOp.op = "poll" /\ lastOp.outcome = "raises") =>
        /\ ~lastOp.raised
        /\ alerts # <<>>
        /\ Head(alerts).type = "error" /\ Head(alerts).severity = "error"
        /\ alerts = PushStore(prev.alerts, Head(alerts))

\* C21 witness: the fetch of a poll has failed on a store that held events,
\* and the error event is the newest of the store.
C21_Witness ==
    /\ lastOp.op = "poll" /\ lastOp.outcome = "raises"
    /\ prev.alerts # <<>>
    /\ Head(alerts) = PollError
    /\ Len(alerts) > 1

\* The last call pushed events without a device: a poll, or a push_alert
\* with device=None.
PushedWithoutDevice ==
    \/ lastOp.op = "poll"
    \/ lastOp.op = "push" /\ lastOp.device = NoDevice

\* C26: an event pushed without a device (mirrored, save-completed, error)
\* goes on the alert store and does nothing else: the watchlist is as it
\* was, no save thread is started, no SaveRecord and no file is added.
C26_EventWithoutDeviceOnlyAppends ==
    PushedWithoutDevice =>
        /\ watched_devices = prev.watched
        /\ saveThreads = prev.threads
        /\ alert_saves = prev.saves
        /\ files = prev.files
        /\ lastOp.op = "push" =>
              /\ alerts # <<>>
              /\ Head(alerts).type = lastOp.atype
              /\ alerts = PushStore(prev.alerts, Head(alerts))

\* C26 witness: a save-completed event has been pushed without a device
\* while a device was watched and a save thread was waiting.
C26_Witness ==
    /\ lastOp.op = "push" /\ lastOp.device = NoDevice /\ lastOp.atype = "save"
    /\ DOMAIN watched_devices # {}
    /\ saveThreads # <<>>
    /\ Head(alerts).type = "save"

(***************************************************************************)
(* The batch save.                                                         *)
(***************************************************************************)
\* The last call was a do_save in which the fetch, the analysis or the file
\* write failed.
FailedBatch ==
    /\ lastOp.op = "do_save"
    /\ lastOp.mac = "raises" \/ lastOp.outcome # "ok"

\* The last do_save put one failed entry, with its error text, on top of
\* the batch save log it found, and pushed the error event.
RecordedFailure ==
    /\ save_log # <<>>
    /\ ~Head(save_log).ok /\ Head(save_log).error # ""
    /\ Tail(save_log) = prev.save_log
    /\ alerts # <<>>
    /\ Head(alerts).type = "error" /\ Head(alerts).severity = "error"
    /\ lastOp.mac = "raises" => alerts = PushStore(prev.alerts, Head(alerts))

\* C23: a failure during do_save (fetch, analysis, file write) is not
\* raised to the caller: the call puts exactly one failed entry at the head
\* of the batch save log and pushes one error event.
C23_BatchFailureIsRecordedNotRaised ==
    FailedBatch => ~lastOp.raised /\ RecordedFailure

\* A failure inside the try block of do_save (the fetch, open, json.dump) is
\* recorded and not raised.
BatchFailureInsideTryIsRecorded ==
    (FailedBatch /\ lastOp.outcome # "mkdir_fails") =>
        ~lastOp.raised /\ RecordedFailure

\* C24: after any sequence of do_save calls, successful or failing, the
\* batch save log holds at most its capacity (50 in the program) and is
\* newest first: a call's entry goes on top, the older ones keep their order.
C24_BatchLogBoundedNewestFirst ==
    /\ Len(save_log) <= MaxLog
    /\ (lastOp.op = "do_save" /\ save_log # prev.save_log)
          => Tail(save_log) = Take(prev.save_log, Len(save_log) - 1)

\* The order alone: every entry goes on top of the batch save log.
BatchLogNewestFirst ==
    (lastOp.op = "do_save" /\ ~lastOp.raised)
        => Tail(save_log) = Take(prev.save_log, Len(save_log) - 1)

\* The capacity holds after every successful do_save.
BatchLogTrimmedAfterSuccess ==
    (lastOp.op = "do_save" /\ lastOp.mac = "list" /\ lastOp.outcome = "ok")
        => Len(save_log) <= MaxLog /\ Head(save_log).ok

\* C27: under every interleaving of _auto_watch_device with a manual add or
\* a delete for the same identifier, an automatic add never overwrites an
\* entry another operation created: a manually added entry that stays in
\* the watchlist keeps its manual origin, and changes only by another
\* manual add.
C27_ManualEntryNeverOverwrittenByAuto ==
    [][\A m \in DOMAIN watched_devices :
          (/\ watched_devices[m].auto = Absent
           /\ m \in DOMAIN watched_devices'
           /\ watched_devices'[m] # watched_devices[m])
          => /\ watched_devices'[m].auto = Absent
             /\ \E b \in RaceAddBodies : WatchlistAddCall(b)]_vars

\* Whatever the interleaving, the watchlist holds one entry per identifier,
\* stored under the identifier it names.
WatchlistKeyedByItsMac ==
    \A m \in DOMAIN watched_devices : watched_devices[m].mac = m

(***************************************************************************)
(* A watch policy that raises.                                             *)
(***************************************************************************)
\* C28: when the watch policy raises for an event, the event is in the
\* alert store and stays there, and the alerts the rules still call for are
\* recorded: the later rules of the same record, and the later records of
\* the batch.
C28_WatchFailureLosesNoAlert ==
    (RecordDone /\ Readable(dev) /\ dev.signal.last.k \in {"int", "absent"}
       /\ ~HashableMac(dev))
    => /\ Titles(emitted) = CalledFor(dev)
       /\ emitted # <<>> => Head(alerts) = emitted[Len(emitted)]
       /\ apc # "raised"

\* When the watch policy raises for an event, the event is in the alert
\* store, no exception leaves analyze_devices, and the loop goes on to the
\* next record; the later rules of the same record are not evaluated.
WatchFailureKeepsTheEventAndTheBatch ==
    (RecordDone /\ Readable(dev) /\ dev.signal.last.k \in {"int", "absent"}
       /\ ~HashableMac(dev) /\ CalledFor(dev) # <<>>)
    => /\ Titles(emitted) = <<Head(CalledFor(dev))>>
       /\ Head(alerts) = emitted[1]
       /\ apc # "raised"
       /\ failed

(***************************************************************************)
(* Order of a batch in the alert store.                                    *)
(***************************************************************************)
\* Position of entry e in the store, 0 when it is not there.
PosIn(store, e) ==
    IF \E i \in 1..Len(store) : store[i] = e
    THEN CHOOSE i \in 1..Len(store) : store[i] = e
    ELSE 0

\* C29: under every interleaving of concurrent analyze_devices calls, two
\* events of one batch that are both in the alert store lie in append
\* order: the one appended later is nearer the head.
C29_BatchKeepsAppendOrder ==
    \A t \in Threads : \A i, j \in 1..bidx[t] :
        (i < j /\ PosIn(alerts, OrderJobs[t][i].alert) > 0
               /\ PosIn(alerts, OrderJobs[t][j].alert) > 0)
        => PosIn(alerts, OrderJobs[t][j].alert) < PosIn(alerts, OrderJobs[t][i].alert)

\* C29 witness: two events of one batch are in the store with an event of
\* the other batch between them.
C29_Witness ==
    /\ Len(alerts) = 3
    /\ alerts[3] = OrderJobs["t1"][1].alert
    /\ alerts[2] = OrderJobs["t2"][1].alert
    /\ alerts[1] = OrderJobs["t1"][2].alert

(***************************************************************************)
(* Alert identifiers.                                                      *)
(***************************************************************************)
\* C30: of any two events in the store the one appended later has the
\* strictly greater id, so no two events in the store share an id, events
\* of the same millisecond and seeded events included.
C30_IdsStrictlyIncreaseInAppendOrder ==
    \A i, j \in 1..Len(alerts) : i < j => alerts[i].id > alerts[j].id

\* An entry _seed_dummy_alerts wrote.
IsSeed(a) == \E k \in 1..Len(SEEDS) : SEEDS[k].e.title = a.title

\* While the clock does not go back, ids never decrease in append order.
IdsNeverDecreaseInAppendOrder ==
    \A i, j \in 1..Len(alerts) : i < j => alerts[i].id >= alerts[j].id

\* A seeded event shares its id with no other event of the store.
SeededIdsAreUnique ==
    \A i, j \in 1..Len(alerts) :
        (i # j /\ IsSeed(alerts[i])) => alerts[i].id # alerts[j].id

(***************************************************************************)
(* The entries of the watchlist.                                           *)
(***************************************************************************)
\* The last call was _auto_watch_device and it inserted an entry for the
\* device.
AutoInserted ==
    /\ WatchCandidate
    /\ lastOp.device.mac.v \in DOMAIN watched_devices

\* C31: an entry the watch policy inserts has origin automatic, is stored
\* under the device identifier, carries the device's PHY, and is named by
\* the display name of the device when that is non-empty and by the
\* identifier otherwise; an entry added by the operator is never marked
\* automatic.
C31_AutoEntryShape ==
    /\ AutoInserted =>
          LET d == lastOp.device
              e == watched_devices[d.mac.v]
          IN  /\ e.auto = "True"
              /\ e.mac = d.mac.v
              /\ e.phyname = (IF d.phy.k = "absent" THEN Id("") ELSE d.phy)
              /\ IF d.name.k = "str" /\ d.name.v # <<>>
                 THEN e.name = [text |-> d.name.v, id |-> ""]
                 ELSE e.name = [text |-> <<>>, id |-> d.mac.v]
    /\ (lastOp.op = "watchlist_add" /\ resp.status = 200)
          => watched_devices[Upper(lastOp.body.mac.v)].auto # "True"

\* C31 witness: the policy has inserted a device without a display name,
\* under its identifier and named by it, beside an entry of the operator.
C31_Witness ==
    /\ AutoInserted
    /\ lastOp.device.name.k = "absent"
    /\ watched_devices[lastOp.device.mac.v].name.id = "bb:02"
    /\ "AA:01" \in DOMAIN watched_devices
    /\ watched_devices["AA:01"].auto = Absent

\* C38: in every reachable state no entry of the watchlist is stored under
\* an empty identifier, every entry's mac field is the key it is stored
\* under, and one device identifier has at most one entry, whatever the
\* letter case it is written in.
C38_WatchlistWellKeyed ==
    /\ "" \notin DOMAIN watched_devices
    /\ \A m \in DOMAIN watched_devices : watched_devices[m].mac = m
    /\ \A m, n \in DOMAIN watched_devices : Upper(m) = Upper(n) => m = n

\* No entry is stored under an empty identifier, and every entry's mac
\* field is its key.
KeysAreNonEmptyAndNamedByTheirEntry ==
    /\ "" \notin DOMAIN watched_devices
    /\ \A m \in DOMAIN watched_devices : watched_devices[m].mac = m

(***************************************************************************)
(* Writes to the automation configuration.                                 *)
(***************************************************************************)
\* C34: a POST to /api/automations sets exactly the flags and the auto-watch
\* rules its body names and leaves every other flag and rule, the
\* watchlist, the alert store and the save logs as they were; a key it does
\* not know creates no flag and no rule.
C34_WriteChangesOnlyNamedKeys ==
    [][\A b \in ConfigBodies :
          AutomationsPostCall(b)
          => /\ DOMAIN automations' = DOMAIN automations
             /\ DOMAIN automations'.auto_watch_rules = DOMAIN automations.auto_watch_rules
             /\ \A k \in FLAGS :
                   automations'[k] = (IF k \in DOMAIN b THEN b[k] ELSE automations[k])
             /\ \A k \in RULES :
                   automations'.auto_watch_rules[k] =
                      (IF k \in DOMAIN b THEN b[k] ELSE automations.auto_watch_rules[k])
             /\ UNCHANGED <<watched_devices, alerts, alert_saves, save_log, files,
                            saveThreads>>]_vars

\* C34 witness: after a write the save flag is off and the strong-signal
\* rule on, every other flag and rule is at its default, and the alert
\* store, the watchlist and the save threads hold what push_alert left.
C34_Witness ==
    /\ lastOp.op = "automations"
    /\ automations = [DefaultAutomations EXCEPT
                         !.alert_save_enabled = FALSE,
                         !.auto_watch_rules = [@ EXCEPT !.strong_signal = TRUE]]
    /\ "AA:01" \in DOMAIN watched_devices
    /\ alerts # <<>>
    /\ saveThreads # <<>>

(***************************************************************************)
(* Ingestion of an argument that is not a batch.                           *)
(***************************************************************************)
\* C33: analyze_devices called with an argument that is not a list returns
\* at once: the alert store, the watchlist and the alert save log are as
\* they were, no save thread is started and no exception is raised.
C33_NonListIsNoOp ==
    [][\A k \in OtherInputs, n \in 1..MaxBatch :
          AnalyzeInput(k, n)
          => /\ UNCHANGED <<alerts, watched_devices, alert_saves, saveThreads, files>>
             /\ apc' = "idle"]_vars

\* C33 witness: the last call had null for argument, on a store, a
\* watchlist and save threads that earlier batches had filled.
C33_Witness ==
    /\ lastOp.op = "analyze_input"
    /\ lastOp.outcome = "None"
    /\ apc = "idle"
    /\ alerts # <<>> /\ alerts = prev.alerts
    /\ DOMAIN watched_devices # {} /\ watched_devices = prev.watched
    /\ saveThreads # <<>> /\ saveThreads = prev.threads
    /\ alert_saves # <<>> /\ alert_saves = prev.saves

(***************************************************************************)
(* The mirror of the upstream alert feed.                                  *)
(***************************************************************************)
\* Category and severity of every entry of a store.
Kinds(store) == [i \in 1..Len(store) |-> <<store[i].type, store[i].severity>>]
Reversed(s) == [i \in 1..Len(s) |-> s[Len(s) + 1 - i]]
\* The last MirrorLast records of an upstream batch, in upstream order.
LastRecords(items) ==
    LET n == Min(Len(items), MirrorLast)
    IN  [i \in 1..n |-> items[Len(items) - n + i]]
\* The record is a dict whose severity is a number or missing.
CanMirror(a) == a.shape = "dict" /\ a.severity.k \in {"int", "absent"}
\* The number of records of rs before the first that cannot be mirrored.
Mirrored(rs) ==
    CHOOSE n \in 0..Len(rs) :
        /\ \A i \in 1..n : CanMirror(rs[i])
        /\ n = Len(rs) \/ ~CanMirror(rs[n + 1])
\* The store after a poll of feed f that mirrors the records it can, each as
\* a kismet event of the severity sev gives it, in upstream order, and
\* pushes one error event when it stops at a record.
StoreAfterPoll(f, sev(_)) ==
    LET rs == LastRecords(f.items)
        n == Mirrored(rs)
        pushed == [i \in 1..n |-> <<"kismet", sev(rs[i])>>]
                  \o (IF n < Len(rs) THEN <<(<<"error", "error">>)>> ELSE <<>>)
    IN  Take(Reversed(pushed) \o Kinds(alerts), MAX_ALERTS)

\* C32: every upstream record a poll mirrors becomes one event of category
\* kismet whose severity is warning when the severity ordinal of the record
\* is below 10 and info otherwise; the records mirrored are among the last
\* 20 of the upstream batch and are mirrored in upstream order.
C32_MirrorSeverityAndOrder ==
    [][\A f \in PollFeeds :
          (PollKismetAlerts(f) /\ f.k = "list")
          => Kinds(alerts') =
                StoreAfterPoll(f, LAMBDA a : IF a.severity.k = "int"
                                                 /\ a.severity.v < WARNING_BELOW
                                              THEN "warning" ELSE "info")]_vars

\* C32 as amended: the same, a record without a severity counting as
\* ordinal 5 (warning); the poll mirrors the last 20 records in upstream
\* order up to the first one that is not a dict or whose severity is not a
\* number, where it stops and pushes one error event.
C32_MirrorSeverityDefaultsToWarning ==
    [][\A f \in PollFeeds :
          (PollKismetAlerts(f) /\ f.k = "list")
          => Kinds(alerts') =
                StoreAfterPoll(f, LAMBDA a : IF a.severity.k = "absent"
                                                 \/ a.severity.v < WARNING_BELOW
                                              THEN "warning" ELSE "info")]_vars

\* C32 witness: a poll has mirrored the last records of a batch longer than
\* the tail: the record without a severity is the newest event, a warning,
\* and the mild alert before it in the batch lies below it, an info.
C32_Witness ==
    /\ lastOp.op = "poll" /\ lastOp.outcome = "list"
    /\ Len(alerts) >= 2
    /\ alerts[1].type = "kismet" /\ alerts[1].title = "PROBECHAN"
    /\ alerts[1].severity = "warning"
    /\ alerts[2].type = "kismet" /\ alerts[2].title = "APSPOOF"
    /\ alerts[2].severity = "info"

(***************************************************************************)
(* File names.                                                             *)
(***************************************************************************)
\* The ASCII letters and digits, the hyphen and the underscore.
AlnumHyphenUnderscore ==
    {"a", "b", "c", "d", "e", "f", "g", "h", "i", "j", "k", "l", "m", "n", "o", "p",
     "q", "r", "s", "t", "u", "v", "w", "x", "y", "z",
     "A", "B", "C", "D", "E", "F", "G", "H", "I", "J", "K", "L", "M", "N", "O", "P",
     "Q", "R", "S", "T", "U", "V", "W", "X", "Y", "Z",
     "0", "1", "2", "3", "4", "5", "6", "7", "8", "9", "-", "_"}

\* C39: for every input string, _sanitize_filename returns a string of at
\* most 80 characters, each a letter, a digit, a hyphen or an underscore,
\* and applying it to what it returned gives the same string again.
C39_SanitizeIsSafeCappedIdempotent ==
    /\ Len(san_ret) <= SANITIZE_CAP
    /\ \A i \in 1..Len(san_ret) : san_ret[i] \in AlnumHyphenUnderscore
    /\ Sanitize(san_ret) = san_ret

\* C39 witness: the function has been called on a string longer than the
\* cap with a colon at its head and one behind the cap, and has returned 80
\* characters that begin with an underscore.
C39_Witness ==
    /\ Len(san_arg) > SANITIZE_CAP
    /\ san_arg[1] = ":" /\ san_arg[SANITIZE_CAP + 1] = ":"
    /\ Len(san_ret) = SANITIZE_CAP
    /\ san_ret[1] = "_"

\* What it returns is its argument, cut at the cap, with every character
\* outside the safe set replaced by an underscore and every other kept.
SanitizeKeepsTheSafeCharacters ==
    /\ Len(san_ret) = Min(Len(san_arg), SANITIZE_CAP)
    /\ \A i \in 1..Len(san_ret) :
          san_ret[i] = IF san_arg[i] \in {":", " "} THEN "_" ELSE san_arg[i]

(***************************************************************************)
(* The save threads: their end, and the save log they share.               *)
(***************************************************************************)
\* Every push_alert has returned and every save thread has ended.
AllSavesDone == (\A t \in Threads : wpc[t] = "idle") /\ saveThreads = <<>>

\* C36: concurrent save threads lose no record: when the k save attempts
\* that passed the gates have all ended and k is at most the capacity of
\* the log, the alert save log holds exactly k SaveRecords, one per
\* attempt, under every interleaving of the threads' insert and trim steps.
C36_ConcurrentSavesLoseNoRecord ==
    (AllSavesDone /\ Len(hist) <= MaxSaves) =>
        /\ Len(alert_saves) = Len(hist)
        /\ \A k \in 1..Len(hist) :
              \E r \in 1..Len(alert_saves) : alert_saves[r].alert_type = hist[k].type

\* The log never holds a record nobody inserted: at most one per attempt,
\* each of an event that was pushed.
SaveLogHoldsOnlyAttempts ==
    /\ Len(alert_saves) <= Len(hist)
    /\ \A r \in 1..Len(alert_saves) :
          \E k \in 1..Len(hist) : alert_saves[r].alert_type = hist[k].type

\* At most one save thread is between its look-up of the list (line 394 or
\* 402) and the end of line 398.
OneInTheLogSection ==
    Cardinality({i \in 1..Len(saveThreads) :
                    saveThreads[i].pc \in {"insert", "slice", "assign"}}) <= 1

\* When the save threads run these lines one at a time, no record is lost.
SerialSavesLoseNoRecord == []OneInTheLogSection => []C36_ConcurrentSavesLoseNoRecord

\* A thread does insert into a list that another thread has replaced.
SomeInsertIsStale == \E i \in 1..Len(saveThreads) : saveThreads[i].stale

\* C35: every save thread push_alert starts ends, when every call into the
\* filesystem returns without an error: it has stopped at a gate and left
\* no trace, or it has appended its SaveRecord.
C35_SaveStopsAtAGateOrAppends ==
    (lastOp.op = "save" /\ lastOp.outcome = "ok") =>
        \/ /\ ~GatesPass(automations, watched_devices, lastOp.device)
           /\ AppendedNone
           /\ save_dir = prev.save_dir
        \/ /\ GatesPass(automations, watched_devices, lastOp.device)
           /\ AppendedOne

\* The same for every device whose label is a string.
LabelledSaveStopsAtAGateOrAppends ==
    (lastOp.op = "save" /\ lastOp.outcome = "ok" /\ DevName(lastOp.device).k = "str") =>
        \/ /\ ~GatesPass(automations, watched_devices, lastOp.device)
           /\ AppendedNone
           /\ save_dir = prev.save_dir
        \/ /\ GatesPass(automations, watched_devices, lastOp.device)
           /\ AppendedOne

\* Under fair scheduling every save thread ends: again and again no save
\* thread is left.
EverySaveThreadEnds == []<>(saveThreads = <<>>)

\* push_alert returns when it has started the save thread: the thread is
\* at its first line, and neither the save log nor a file has changed.
PushReturnsBeforeTheSaveRuns ==
    [][\A t \in Threads :
          (wpc[t] = "save" /\ wpc'[t] = "idle" /\ wjob[t].device # NoDevice)
          => /\ saveThreads' = Append(saveThreads, wjob[t])
             /\ wjob[t].pc = "start"
             /\ UNCHANGED <<alert_saves, files, save_dir>>]_vars

\* Every push_alert has returned while a save thread it started has not
\* run its first line.
SaveOutlivesItsPush ==
    /\ \A t \in Threads : wpc[t] = "idle"
    /\ \E i \in 1..Len(saveThreads) : saveThreads[i].pc = "start"

(***************************************************************************)
(* The watch policy and the watched-only gate of one event.                *)
(***************************************************************************)
\* The watch policy puts the device of the event on the watchlist when it
\* is not there: the device has an identifier and a rule fires.
RuleFires(j) ==
    /\ j.device # NoDevice
    /\ TruthyId(MacOf(j.device))
    /\ ShouldWatch(automations.auto_watch_rules, j.alert.type, PhyOf(j.device))
\* The device of the event is on the watchlist.
OnWatchlist(j) == MacOf(j.device).v \in DOMAIN watched_devices
\* The device of every event whose rule fires is on the watchlist from the
\* moment push_alert is about to start the save thread until that thread
\* has read its gates.
WatchedBeforeTheGate ==
    /\ \A t \in Threads :
          (wpc[t] = "save" /\ RuleFires(wjob[t])) => OnWatchlist(wjob[t])
    /\ \A i \in 1..Len(saveThreads) :
          (saveThreads[i].pc = "start" /\ RuleFires(saveThreads[i]))
          => OnWatchlist(saveThreads[i])

====
